---- MODULE Spec2Model ----
(***************************************************************************)
(* Model of the schema extraction of codegen/src/parse.rs: the feature-set *)
(* algebra (introspect_features), the type introspector (introspect_type), *)
(* the declaration recognizer (mod parsing), the module crawler            *)
(* (load_file, do_load_file) and the schema assembler (parse).             *)
(***************************************************************************)
EXTENDS Integers, Sequences, FiniteSets, TLC

VARIABLES
    fAttrs,     \* introspect_features: the `attrs` slice it was called with
    fIdx,       \* introspect_features: position of the `for attr in attrs` loop
    fRet,       \* introspect_features: `ret.any`
    fPc,        \* introspect_features: "loop", "done" (returned) or "panic"
    lookup,     \* struct Lookup: items, tokens, aliases
    tIn,        \* introspect_type: the syn::Type it is called with
    tOut,       \* introspect_type: the types::Type returned, or the panic
    tPc,        \* introspect_type: "call", "ret" or "abort"
    fs,         \* the source tree: file path -> parsed file or syntax error
    pc,         \* parse(): "tokens", "crawl", "assemble", then how it ended
    stack,      \* the load_file calls in progress: [path, features, idx]
    loaded,     \* the files read so far (fs::read_to_string), in order
    nodes,      \* parse(): the types::Node values collected so far
    result      \* what parse() returned: Definitions, an error, or a panic

fvars == <<fAttrs, fIdx, fRet, fPc>>

tvars == <<lookup, tIn, tOut, tPc>>

mvars == <<fs, pc, stack, loaded, nodes, result>>

vars == <<fvars, tvars, mvars>>

(***************************************************************************)
(* Bounds of the model.                                                    *)
(***************************************************************************)
MaxAttrs == 3

\* nesting depth of the type expressions introspect_type is called with
MaxDepth == 2

\* number of renames in the alias table
MaxAliases == 3

\* nested load_file calls after which a crawl that keeps recursing is cut
MaxStack == 3

\* fields of a generated struct, variants of a generated enum
MaxMembers == 2

\* entries of a generated token table
MaxTokens == 2

(***************************************************************************)
(* Helpers on sequences and sets.                                          *)
(***************************************************************************)
Range(s) == {s[i] : i \in DOMAIN s}

SeqsUpTo(S, n) == UNION {[1..k -> S] : k \in 0..n}

(***************************************************************************)
(* Attributes.  An attribute is its path and its argument tokens; the      *)
(* tokens are kept in the shape the parsers of mod parsing look at:        *)
(*   form "feature": (feature = "n")            names = <<n>>              *)
(*   form "any":     (any(feature = "n", ...))  names = the listed names   *)
(*   form "hidden":  (hidden)                                              *)
(*   form "value":   = "literal"                names = <<literal>>        *)
(*   form "other":   any other tokens                                      *)
(***************************************************************************)
Attr(p, f, ns) == [path |-> p, form |-> f, names |-> ns]

FeatureNames == {"full", "derive", "printing"}

\* #[cfg(feature = "n")]
CfgFeature(n) == Attr("cfg", "feature", <<n>>)

\* #[cfg(any(feature = "a", ...))]
CfgAny(ns) == Attr("cfg", "any", ns)

\* parse_quote!(#[cfg(feature = "full")]), parse.rs:306
FullAttr == CfgFeature("full")

\* parse_quote!(#[cfg(feature = "derive")]), parse.rs:594
DeriveAttr == CfgFeature("derive")

(***************************************************************************)
(* parsing::parse_features: the BTreeSet of the names of a cfg attribute,  *)
(* or a panic for a predicate that is neither `feature = ".."` nor         *)
(* `any(..)`.                                                              *)
(***************************************************************************)
Panic(m) == [t |-> "panic", msg |-> m]

IsPanic(v) == v.t = "panic"

RECURSIVE BTreeSetOf(_)
BTreeSetOf(s) ==
    IF s = <<>> THEN {} ELSE {Head(s)} \cup BTreeSetOf(Tail(s))

parse_features(attr) ==
    IF attr.form = "any" THEN [t |-> "ok", any |-> BTreeSetOf(attr.names)]
    ELSE IF attr.form = "feature" THEN [t |-> "ok", any |-> {attr.names[1]}]
    ELSE Panic("parse_features")

\* features_step with the smaller-so-far branch taking the new predicate too.
features_step_takes_new(ret, attr) ==
    IF attr.path # "cfg" THEN [t |-> "ok", any |-> ret]
    ELSE LET features == parse_features(attr) IN
         IF IsPanic(features) THEN features
         ELSE IF ret = {} THEN features
         ELSE IF Cardinality(ret) < Cardinality(features.any)
              THEN IF ret \subseteq features.any
                   THEN features
                   ELSE Panic("assert")
              ELSE IF features.any \subseteq ret
                   THEN features
                   ELSE Panic("assert")

(***************************************************************************)
(* One iteration of the loop of introspect_features (parse.rs:199-214) on  *)
(* the accumulated `ret.any` and the next attribute: the new `ret.any`, or *)
(* a panic when an assertion fails.                                        *)
(***************************************************************************)
features_step(ret, attr) ==
    IF attr.path # "cfg" THEN [t |-> "ok", any |-> ret]
    ELSE LET features == parse_features(attr) IN
         IF IsPanic(features) THEN features
         ELSE IF ret = {} THEN features
         ELSE IF Cardinality(ret) < Cardinality(features.any)
              THEN IF ret \subseteq features.any
                   THEN [t |-> "ok", any |-> ret]
                   ELSE Panic("assert")
              ELSE IF features.any \subseteq ret
                   THEN features
                   ELSE Panic("assert")

\* introspect_features as a whole: the fold of features_step over attrs.
RECURSIVE features_fold(_, _)
features_fold(ret, attrs) ==
    IF attrs = <<>> THEN [t |-> "ok", any |-> ret]
    ELSE LET r == features_step(ret, Head(attrs)) IN
         IF IsPanic(r) THEN r ELSE features_fold(r.any, Tail(attrs))

introspect_features(attrs) == features_fold({}, attrs)

(***************************************************************************)
(* syn::Type, as far as introspect_type looks at it.                       *)
(*   [k |-> "Path", ident, arguments]  a path without qself: the ident and *)
(*                                     the PathArguments of its last       *)
(*                                     segment                             *)
(*   [k |-> "Tuple", elems]                                                *)
(*   [k |-> "Macro", mac, tokens]      a macro type: the last segment of   *)
(*                                     the macro's path, its tokens as text*)
(*   [k |-> "Other"]                   any other type expression           *)
(* PathArguments: [pa |-> "None" | "Angle" | "Paren", args]; a generic     *)
(* argument is [g |-> "Type", ty] or [g |-> "Lifetime"].                   *)
(***************************************************************************)
NoArgs == [pa |-> "None", args |-> <<>>]

Angle(args) == [pa |-> "Angle", args |-> args]

TyArg(ty) == [g |-> "Type", ty |-> ty]

LifetimeArg == [g |-> "Lifetime"]

PathTy(id, arguments) == [k |-> "Path", ident |-> id, arguments |-> arguments]

NameTy(id) == PathTy(id, NoArgs)

TupleTy(elems) == [k |-> "Tuple", elems |-> elems]

MacroTy(mac, tokens) == [k |-> "Macro", mac |-> mac, tokens |-> tokens]

TokenTy(tokens) == MacroTy("Token", tokens)

OtherTy == [k |-> "Other"]

(***************************************************************************)
(* types::Type, the value introspect_type returns.                         *)
(***************************************************************************)
Syn(n) == [t |-> "Syn", name |-> n]

Std(n) == [t |-> "Std", name |-> n]

Ext(n) == [t |-> "Ext", name |-> n]

Token(n) == [t |-> "Token", name |-> n]

Group(n) == [t |-> "Group", name |-> n]

Punctuated(e, p) == [t |-> "Punctuated", element |-> e, punct |-> p]

Option(e) == [t |-> "Option", inner |-> e]

Vec(e) == [t |-> "Vec", inner |-> e]

Box(e) == [t |-> "Box", inner |-> e]

Tuple(es) == [t |-> "Tuple", elems |-> es]

\* the `while let` of parse.rs:169 never leaves an alias cycle
Hang == [t |-> "hang"]

NoType == [t |-> "none"]

\* a panic or a loop that never ends: no value is returned
Aborts(v) == v.t \in {"panic", "hang"}

GroupNames == {"Brace", "Bracket", "Paren", "Group"}

\* ExtNames with Symbol in the place of Literal.
ExtNamesWithSymbol == {"TokenStream", "Symbol", "Ident", "Span"}

ExtNames == {"TokenStream", "Literal", "Ident", "Span"}

\* StdNames without String.
StdNames_short == {"u32", "usize", "bool"}

StdNames == {"String", "u32", "usize", "bool"}

WrapperNames == {"Option", "Punctuated", "Vec", "Box"}

BuiltinNames == WrapperNames \cup GroupNames \cup ExtNames \cup StdNames

(***************************************************************************)
(* struct Lookup (parse.rs:21-27): three BTreeMaps, as functions.          *)
(***************************************************************************)
EmptyMap == <<>>

Lookup(items, tokens, aliases) ==
    [items |-> items, tokens |-> tokens, aliases |-> aliases]

EmptyLookup == Lookup(EmptyMap, EmptyMap, EmptyMap)

\* Insert keeping the value a key already has.
Insert_keeps_first(map, key, value) ==
    [x \in DOMAIN map \cup {key} |-> IF x \in DOMAIN map THEN map[x] ELSE value]

\* BTreeMap::insert: a later value replaces the one under the same key
Insert(map, key, value) ==
    [x \in DOMAIN map \cup {key} |-> IF x = key THEN value ELSE map[x]]

\* first_arg taking the last generic argument instead of the first.
first_arg_takes_last(params) ==
    IF params.pa # "Angle" THEN Panic("Expected at least 1 type argument here")
    ELSE IF params.args = <<>> THEN Panic("Expected at least 1 type argument here")
    ELSE IF params.args[Len(params.args)].g # "Type"
         THEN Panic("Expected at least 1 type argument here")
    ELSE [t |-> "ok", ty |-> params.args[Len(params.args)].ty]

\* first_arg (parse.rs:248-262)
first_arg(params) ==
    IF params.pa # "Angle" THEN Panic("Expected at least 1 type argument here")
    ELSE IF params.args = <<>> THEN Panic("Expected at least 1 type argument here")
    ELSE IF params.args[1].g # "Type"
         THEN Panic("Expected at least 1 type argument here")
    ELSE [t |-> "ok", ty |-> params.args[1].ty]

\* last_arg taking the first generic argument instead of the last.
last_arg_takes_first(params) ==
    IF params.pa # "Angle" THEN Panic("Expected at least 1 type argument here")
    ELSE IF params.args = <<>> THEN Panic("Expected at least 1 type argument here")
    ELSE IF params.args[1].g # "Type"
         THEN Panic("Expected at least 1 type argument here")
    ELSE [t |-> "ok", ty |-> params.args[1].ty]

\* last_arg (parse.rs:264-278)
last_arg(params) ==
    IF params.pa # "Angle" THEN Panic("Expected at least 1 type argument here")
    ELSE IF params.args = <<>> THEN Panic("Expected at least 1 type argument here")
    ELSE IF params.args[Len(params.args)].g # "Type"
         THEN Panic("Expected at least 1 type argument here")
    ELSE [t |-> "ok", ty |-> params.args[Len(params.args)].ty]

(***************************************************************************)
(* The `while let Some(alias) = lookup.aliases.get(resolved)` loop of      *)
(* parse.rs:168-171.  `fuel` counts the substitutions left before a key    *)
(* must have repeated: an acyclic chain substitutes each key at most once, *)
(* so a loop that outlives one substitution per key never ends.            *)
(***************************************************************************)
RECURSIVE resolve_from(_, _, _)
resolve_from(aliases, resolved, fuel) ==
    IF resolved \in DOMAIN aliases
    THEN IF fuel = 0 THEN Hang
         ELSE resolve_from(aliases, aliases[resolved], fuel - 1)
    ELSE [t |-> "ok", name |-> resolved]

\* resolve_alias with an `if let` in place of the `while let`.
resolve_alias_once(aliases, ident) ==
    IF ident \in DOMAIN aliases
    THEN [t |-> "ok", name |-> aliases[ident]]
    ELSE [t |-> "ok", name |-> ident]

resolve_alias(aliases, ident) ==
    resolve_from(aliases, ident, Cardinality(DOMAIN aliases))

\* the `_` arm of parse.rs:167-177
introspect_name(ident, lkp) ==
    LET resolved == resolve_alias(lkp.aliases, ident) IN
    IF resolved.t = "hang" THEN Hang
    ELSE IF resolved.name \in DOMAIN lkp.items THEN Syn(resolved.name)
    ELSE Panic("unimplemented")

(***************************************************************************)
(* introspect_type (parse.rs:133-194).  A panic of a nested call is the    *)
(* panic of the whole call.                                                *)
(***************************************************************************)
RECURSIVE introspect_type(_, _)
RECURSIVE introspect_all(_, _)
\* the element-wise map of parse.rs:181 (and :106): the first panic wins
introspect_all(tys, lkp) ==
    IF tys = <<>> THEN [t |-> "ok", elems |-> <<>>]
    ELSE LET h == introspect_type(Head(tys), lkp) IN
         IF Aborts(h) THEN h
         ELSE LET r == introspect_all(Tail(tys), lkp) IN
              IF Aborts(r) THEN r
              ELSE [t |-> "ok", elems |-> <<h>> \o r.elems]

introspect_type(item, lkp) ==
    IF item.k = "Path" THEN
        LET string == item.ident
            arg == first_arg(item.arguments)
            nested == IF IsPanic(arg) THEN arg ELSE introspect_type(arg.ty, lkp)
        IN
        IF string = "Option" THEN
            IF Aborts(nested) THEN nested ELSE Option(nested)
        ELSE IF string = "Punctuated" THEN
            IF Aborts(nested) THEN nested
            ELSE LET larg == last_arg(item.arguments)
                     punct == IF IsPanic(larg) THEN larg
                              ELSE introspect_type(larg.ty, lkp)
                 IN IF Aborts(punct) THEN punct
                    ELSE IF punct.t = "Token" THEN Punctuated(nested, punct.name)
                    ELSE Panic("punct")
        ELSE IF string = "Vec" THEN
            IF Aborts(nested) THEN nested ELSE Vec(nested)
        ELSE IF string = "Box" THEN
            IF Aborts(nested) THEN nested ELSE Box(nested)
        ELSE IF string \in GroupNames THEN Group(string)
        ELSE IF string \in ExtNames THEN Ext(string)
        ELSE IF string \in StdNames THEN Std(string)
        ELSE introspect_name(item.ident, lkp)
    ELSE IF item.k = "Tuple" THEN
        LET tys == introspect_all(item.elems, lkp) IN
        IF Aborts(tys) THEN tys ELSE Tuple(tys.elems)
    ELSE IF item.k = "Macro" /\ item.mac = "Token" THEN
        IF item.tokens \in DOMAIN lkp.tokens
        THEN Token(lkp.tokens[item.tokens])
        ELSE Panic("unwrap")
    ELSE Panic("type")

NoResult == [t |-> "none"]

\* the variables of parse() while it is not running
MainIdle ==
    /\ fs = EmptyMap /\ pc = "idle" /\ stack = <<>> /\ loaded = <<>>
    /\ nodes = <<>> /\ result = NoResult

(***************************************************************************)
(* The feature algebra run step by step: one attribute list, one loop.     *)
(***************************************************************************)
AttrPool ==
    {CfgFeature(n) : n \in FeatureNames}
    \cup {CfgAny(<<>>), CfgAny(<<"full">>),
          CfgAny(<<"full", "derive">>), CfgAny(<<"derive", "full">>),
          CfgAny(<<"full", "printing">>), CfgAny(<<"derive", "printing">>),
          CfgAny(<<"full", "derive", "printing">>),
          CfgAny(<<"full", "full">>)}
    \cup {Attr("cfg", "other", <<>>), Attr("doc", "hidden", <<>>)}

FeaturesInit ==
    /\ fAttrs \in SeqsUpTo(AttrPool, MaxAttrs)
    /\ fIdx = 1
    /\ fRet = {}
    /\ fPc = "loop"
    /\ lookup = EmptyLookup
    /\ tIn = OtherTy /\ tOut = NoType /\ tPc = "idle"
    /\ MainIdle

\* `continue` for an attribute that is not a cfg (parse.rs:200-202)
FeaturesSkip ==
    /\ fPc = "loop"
    /\ fIdx <= Len(fAttrs)
    /\ fAttrs[fIdx].path # "cfg"
    /\ fIdx' = fIdx + 1
    /\ UNCHANGED <<fAttrs, fRet, fPc>>
    /\ UNCHANGED <<tvars, mvars>>

\* a cfg attribute merged into ret (parse.rs:204-213)
FeaturesMerge ==
    /\ fPc = "loop"
    /\ fIdx <= Len(fAttrs)
    /\ fAttrs[fIdx].path = "cfg"
    /\ LET r == features_step(fRet, fAttrs[fIdx]) IN
         /\ ~IsPanic(r)
         /\ fRet' = r.any
    /\ fIdx' = fIdx + 1
    /\ UNCHANGED <<fAttrs, fPc>>
    /\ UNCHANGED <<tvars, mvars>>

\* unwrap() of a predicate parse_features rejects, or a failed assert!
FeaturesPanic ==
    /\ fPc = "loop"
    /\ fIdx <= Len(fAttrs)
    /\ IsPanic(features_step(fRet, fAttrs[fIdx]))
    /\ fPc' = "panic"
    /\ UNCHANGED <<fAttrs, fIdx, fRet>>
    /\ UNCHANGED <<tvars, mvars>>

\* the loop is over: `ret` is returned (parse.rs:216)
FeaturesReturn ==
    /\ fPc = "loop"
    /\ fIdx > Len(fAttrs)
    /\ fPc' = "done"
    /\ UNCHANGED <<fAttrs, fIdx, fRet>>
    /\ UNCHANGED <<tvars, mvars>>

FeaturesNext ==
    \/ FeaturesSkip
    \/ FeaturesMerge
    \/ FeaturesPanic
    \/ FeaturesReturn

SpecFeatures == FeaturesInit /\ [][FeaturesNext]_vars

(***************************************************************************)
(* syn::DeriveInput and AstItem (parse.rs:63-66), as far as the            *)
(* introspection looks at them.                                            *)
(*   data:    [dk |-> "Struct", fields] | [dk |-> "Enum", variants]        *)
(*            | [dk |-> "Union"]                                           *)
(*   fields:  [fk |-> "Named" | "Unnamed" | "Unit", list]                  *)
(*   a field: [vis, ident, ty];  a variant: [attrs, ident, fields]         *)
(***************************************************************************)
Fields(fk, list) == [fk |-> fk, list |-> list]

UnitFields == Fields("Unit", <<>>)

Field(vis, ident, ty) == [vis |-> vis, ident |-> ident, ty |-> ty]

Variant(attrs, ident, fields) == [attrs |-> attrs, ident |-> ident, fields |-> fields]

DataStruct(fields) == [dk |-> "Struct", fields |-> fields]

DataEnum(variants) == [dk |-> "Enum", variants |-> variants]

DeriveInput(attrs, ident, data) == [attrs |-> attrs, ident |-> ident, data |-> data]

AstItem(ast, features) == [ast |-> ast, features |-> features]

(***************************************************************************)
(* Attribute predicates (parse.rs:219-246).                                *)
(***************************************************************************)
\* is_pub taking every visibility for public.
is_pub_always(vis) == TRUE

\* is_pub (parse.rs:219-224)
is_pub(vis) == vis = "pub"

\* is_non_exhaustive (parse.rs:226-233)
is_non_exhaustive(attrs) ==
    \E i \in DOMAIN attrs : attrs[i].path = "non_exhaustive"

\* is_doc_hidden finding no attribute.
is_doc_hidden_never(attrs) == FALSE

\* is_doc_hidden (parse.rs:235-246) with parsing::parse_doc_hidden_attr
is_doc_hidden(attrs) ==
    \E i \in DOMAIN attrs : attrs[i].path = "doc" /\ attrs[i].form = "hidden"

(***************************************************************************)
(* IndexMap: the entries in insertion order; an insert under a key that is *)
(* there keeps the entry's place and replaces its value.                   *)
(***************************************************************************)
IndexInsert(map, key, value) ==
    IF \E i \in DOMAIN map : map[i][1] = key
    THEN [i \in DOMAIN map |-> IF map[i][1] = key THEN <<key, value>> ELSE map[i]]
    ELSE Append(map, <<key, value>>)

(***************************************************************************)
(* introspect_struct (parse.rs:116-131): the IndexMap field name -> Type.  *)
(***************************************************************************)
RECURSIVE struct_fields(_, _, _)
struct_fields(acc, list, lkp) ==
    IF list = <<>> THEN [t |-> "ok", fields |-> acc]
    ELSE LET ty == introspect_type(Head(list).ty, lkp) IN
         IF Aborts(ty) THEN ty
         ELSE struct_fields(IndexInsert(acc, Head(list).ident, ty), Tail(list), lkp)

\* introspect_struct collecting the fields last to first.
introspect_struct_reversed(item, lkp) ==
    IF item.fields.fk = "Named"
    THEN struct_fields(<<>>, [i \in DOMAIN item.fields.list |->
                                item.fields.list[Len(item.fields.list) + 1 - i]], lkp)
    ELSE IF item.fields.fk = "Unit" THEN [t |-> "ok", fields |-> <<>>]
    ELSE Panic("Struct representation not supported")

introspect_struct(item, lkp) ==
    IF item.fields.fk = "Named" THEN struct_fields(<<>>, item.fields.list, lkp)
    ELSE IF item.fields.fk = "Unit" THEN [t |-> "ok", fields |-> <<>>]
    ELSE Panic("Struct representation not supported")

(***************************************************************************)
(* introspect_enum (parse.rs:95-114): the IndexMap variant name -> Types,  *)
(* without the variants marked doc(hidden).                                *)
(***************************************************************************)
variant_fields(variant, lkp) ==
    IF variant.fields.fk = "Unnamed"
    THEN introspect_all([i \in DOMAIN variant.fields.list |-> variant.fields.list[i].ty], lkp)
    ELSE IF variant.fields.fk = "Unit" THEN [t |-> "ok", elems |-> <<>>]
    ELSE Panic("Enum representation not supported")

RECURSIVE enum_variants(_, _, _)
enum_variants(acc, list, lkp) ==
    IF list = <<>> THEN [t |-> "ok", variants |-> acc]
    ELSE IF is_doc_hidden(Head(list).attrs) THEN enum_variants(acc, Tail(list), lkp)
    ELSE LET fields == variant_fields(Head(list), lkp) IN
         IF Aborts(fields) THEN fields
         ELSE enum_variants(IndexInsert(acc, Head(list).ident, fields.elems),
                            Tail(list), lkp)

introspect_enum(item, lkp) == enum_variants(<<>>, item.variants, lkp)

(***************************************************************************)
(* introspect_item (parse.rs:68-93): the types::Node of an AstItem.        *)
(***************************************************************************)
Node(ident, features, data, exhaustive) ==
    [t |-> "ok", ident |-> ident, features |-> features, data |-> data,
     exhaustive |-> exhaustive]

introspect_item(item, lkp) ==
    LET features == introspect_features(item.features)
        data == item.ast.data
    IN
    IF IsPanic(features) THEN features
    ELSE IF data.dk = "Enum" THEN
        LET variants == introspect_enum(data, lkp) IN
        IF Aborts(variants) THEN variants
        ELSE Node(item.ast.ident, features.any,
                  [dk |-> "Enum", variants |-> variants.variants],
                  ~(is_non_exhaustive(item.ast.attrs)
                    \/ \E i \in DOMAIN data.variants : is_doc_hidden(data.variants[i].attrs)))
    ELSE IF data.dk = "Struct" THEN
        IF \A i \in DOMAIN data.fields.list : is_pub(data.fields.list[i].vis)
        THEN LET fields == introspect_struct(data, lkp) IN
             IF Aborts(fields) THEN fields
             ELSE Node(item.ast.ident, features.any,
                       [dk |-> "Struct", fields |-> fields.fields], TRUE)
        ELSE Node(item.ast.ident, features.any, [dk |-> "Private"], TRUE)
    ELSE Panic("Union not supported")

(***************************************************************************)
(* mod parsing: the three declaration forms.  The tokens of a macro        *)
(* invocation are kept as what the parsers read from them:                 *)
(*   ast_struct!:  [ok, attrs, ident, full, fields]                        *)
(*   ast_enum!:    [ok, attrs, ident, no_visit, variants]                  *)
(*   ast_enum_of_structs!: [ok, attrs, ident, entries], an entry being     *)
(*                 [attrs, name, member], member [some, ident, arguments]  *)
(* `ok` is whether the tokens parse; a parser returns                      *)
(* [t |-> "some", item], [t |-> "none"] or [t |-> "err"] (a syn::Error).   *)
(***************************************************************************)
Found(item) == [t |-> "some", item |-> item]

NotFound == [t |-> "none"]

SynError == [t |-> "err"]

\* parsing::full (parse.rs:302-310)
full(tokens) == IF tokens.full THEN <<FullAttr>> ELSE <<>>

\* parsing::ast_struct and ast_struct_inner (parse.rs:313-331): the outer
\* attributes are parsed and dropped, the struct is re-quoted as `pub struct`
ast_struct(tokens) ==
    IF ~tokens.ok THEN SynError
    ELSE Found(AstItem(DeriveInput(<<>>, tokens.ident, DataStruct(tokens.fields)),
                       full(tokens)))

\* ast_enum without the #no_visit marker.
ast_enum_visits_all(tokens) ==
    IF ~tokens.ok THEN SynError
    ELSE Found(AstItem(DeriveInput(tokens.attrs, tokens.ident, DataEnum(tokens.variants)),
                       <<>>))

\* parsing::ast_enum with no_visit (parse.rs:333-361): `rest` is parsed only
\* when the #no_visit marker is absent
ast_enum(tokens) ==
    IF tokens.no_visit THEN NotFound
    ELSE IF ~tokens.ok THEN SynError
    ELSE Found(AstItem(DeriveInput(tokens.attrs, tokens.ident, DataEnum(tokens.variants)),
                       <<>>))

\* eos_variant re-quoting every entry without its member.
eos_variant_unit(entry) == Variant(entry.attrs, entry.name, UnitFields)

\* one entry re-quoted as a variant (parse.rs:402-410)
eos_variant(entry) ==
    Variant(entry.attrs, entry.name,
            IF entry.member.some
            THEN Fields("Unnamed",
                        <<Field("inherited", "", PathTy(entry.member.ident,
                                                        entry.member.arguments))>>)
            ELSE UnitFields)

\* parsing::ast_enum_of_structs (parse.rs:388-422)
ast_enum_of_structs(tokens) ==
    IF ~tokens.ok THEN SynError
    ELSE Found(AstItem(DeriveInput(tokens.attrs, tokens.ident,
                                   DataEnum([i \in DOMAIN tokens.entries |->
                                               eos_variant(tokens.entries[i])])),
                       <<>>))

\* clone_features (parse.rs:513-515)
clone_features(features) == features

\* get_features (parse.rs:517-527): base, then the cfg attributes of attrs
get_features(attrs, base) ==
    clone_features(base) \o SelectSeq(attrs, LAMBDA a : a.path = "cfg")

\* parsing::path_attr (parse.rs:491-503): the first `path` attribute decides
path_attr(attrs) ==
    LET at == {i \in DOMAIN attrs : attrs[i].path = "path"} IN
    IF at = {} THEN NotFound
    ELSE LET i == CHOOSE j \in at : \A l \in at : j <= l IN
         IF attrs[i].form = "value"
         THEN [t |-> "some", value |-> attrs[i].names[1]]
         ELSE SynError

(***************************************************************************)
(* The type introspector on its own: one Lookup, one type expression.      *)
(***************************************************************************)
\* the names the alias table and the node table are drawn from
NodeNames == {"Expr", "ExprLit", "PatLit", "Lit"}

\* ident -> ident maps of at most MaxAliases renames, cycles included
AliasTables ==
    UNION {[D -> NodeNames] :
             D \in {E \in SUBSET NodeNames : Cardinality(E) <= MaxAliases}}

\* a node table holding a unit struct under each name of S
UnitItems(S) ==
    [n \in S |-> AstItem(DeriveInput(<<>>, n, DataStruct(UnitFields)), <<>>)]

TokenTable == [sp \in {",", ";", "+"} |->
                 IF sp = "," THEN "Comma" ELSE IF sp = ";" THEN "Semi" ELSE "Add"]

\* a few tables for the type expressions that nest
SampleLookups ==
    {Lookup(UnitItems({"Expr", "Lit"}), TokenTable, [n \in {"PatLit"} |-> "Lit"]),
     Lookup(UnitItems({"Expr", "Span", "String", "Brace", "Option"}), TokenTable,
            [n \in {"Ident", "Lit", "Box"} |-> "Expr"]),
     Lookup(UnitItems({}), TokenTable, [n \in {"Lit"} |-> "Lit"])}

LeafTypes ==
    {NameTy(n) : n \in NodeNames \cup {"Span", "Ident", "String", "Brace", "Symbol"}}
    \cup {TokenTy(","), TokenTy("=>"), MacroTy("vec", ","), OtherTy,
          NameTy("Option"), PathTy("Expr", Angle(<<TyArg(OtherTy)>>))}

\* the separators tried as last argument of a Punctuated
SeparatorArgs ==
    {TyArg(TokenTy(",")), TyArg(NameTy("Expr")), TyArg(NameTy("String")),
     TyArg(PathTy("Box", Angle(<<TyArg(TokenTy(","))>>))), LifetimeArg}

RECURSIVE TypesOfDepth(_)
TypesOfDepth(d) ==
    IF d = 0 THEN LeafTypes
    ELSE LET T == TypesOfDepth(d - 1) IN
         T
         \cup {PathTy(w, Angle(<<TyArg(ty)>>)) : w \in {"Option", "Vec", "Box"}, ty \in T}
         \cup {PathTy("Punctuated", Angle(<<TyArg(ty), sep>>)) : ty \in T, sep \in SeparatorArgs}
         \cup {PathTy("Box", Angle(<<TyArg(ty), TyArg(NameTy("Expr"))>>)) : ty \in T}
         \cup {PathTy(w, Angle(<<LifetimeArg, TyArg(NameTy("Expr"))>>)) : w \in {"Option", "Vec"}}
         \cup {PathTy("Vec", [pa |-> "Paren", args |-> <<TyArg(NameTy("Expr"))>>]),
               PathTy("Box", Angle(<<>>)), TupleTy(<<>>)}
         \cup {TupleTy(<<ty, NameTy("Expr")>>) : ty \in T}

TypeInit ==
    /\ \/ /\ lookup \in {Lookup(UnitItems(S), TokenTable, al) :
                           S \in SUBSET NodeNames, al \in AliasTables}
          /\ tIn \in {NameTy(n) : n \in NodeNames}
       \/ /\ lookup \in SampleLookups
          /\ tIn \in TypesOfDepth(MaxDepth)
    /\ tOut = NoType
    /\ tPc = "call"
    /\ fAttrs = <<>> /\ fIdx = 1 /\ fRet = {} /\ fPc = "idle"
    /\ MainIdle

\* introspect_type returns a types::Type
TypeReturn ==
    /\ tPc = "call"
    /\ ~Aborts(introspect_type(tIn, lookup))
    /\ tOut' = introspect_type(tIn, lookup)
    /\ tPc' = "ret"
    /\ UNCHANGED <<lookup, tIn>>
    /\ UNCHANGED <<fvars, mvars>>

\* introspect_type panics, or spins in the alias loop: no value comes back
TypeAbort ==
    /\ tPc = "call"
    /\ Aborts(introspect_type(tIn, lookup))
    /\ tOut' = introspect_type(tIn, lookup)
    /\ tPc' = "abort"
    /\ UNCHANGED <<lookup, tIn>>
    /\ UNCHANGED <<fvars, mvars>>

TypeNext ==
    \/ TypeReturn
    \/ TypeAbort

SpecType == TypeInit /\ [][TypeNext]_vars

(***************************************************************************)
(* Source files.  A path is its directory and its file name; a file is     *)
(* [ok |-> TRUE, items] when syn::parse_file accepts it and                *)
(* [ok |-> FALSE, pos] with the span of the syntax error when it does not. *)
(* A path outside the domain of fs is a file that cannot be read.          *)
(***************************************************************************)
PathOf(dir, file) == [dir |-> dir, file |-> file]

\* const SYN_CRATE_ROOT (parse.rs:16)
SYN_CRATE_ROOT == PathOf("src", "lib.rs")

\* const TOKEN_SRC (parse.rs:17)
TOKEN_SRC == PathOf("src", "token.rs")

\* IGNORED_MODS without visit_mut.
IGNORED_MODS_short == {"fold", "visit"}

\* const IGNORED_MODS (parse.rs:18)
IGNORED_MODS == {"fold", "visit", "visit_mut"}

\* EXTRA_TYPES with one more name.
EXTRA_TYPES_and_Helper == {"Lifetime", "Helper"}

\* const EXTRA_TYPES (parse.rs:19)
EXTRA_TYPES == {"Lifetime"}

\* Path::parent and Path::join of a plain file name (parse.rs:565, 606)
parent(path) == path.dir

join(dir, filename) == PathOf(dir, filename)

\* format!("{}.rs", item.ident) (parse.rs:604)
rs_file(ident) ==
    CASE ident = "expr" -> "expr.rs"
      [] ident = "lit" -> "lit.rs"
      [] ident = "derive" -> "derive.rs"
      [] ident = "generics" -> "generics.rs"
      [] ident = "lib" -> "lib.rs"
      [] ident = "fold" -> "fold.rs"
      [] ident = "visit" -> "visit.rs"
      [] ident = "visit_mut" -> "visit_mut.rs"
      [] OTHER -> "mod.rs"

\* proc_macro2::LineColumn: the line is 1-based, the column 0-based
Pos(line, column) == [line |-> line, column |-> column]

ParsedFile(items) == [ok |-> TRUE, items |-> items]

BrokenFile(pos) == [ok |-> FALSE, pos |-> pos]

\* syn::Item, as far as do_load_file and load_token_file look at it
\* `pos` is the span a parser of the item's attributes fails at
ModItem(attrs, ident, inline, pos) ==
    [it |-> "Mod", attrs |-> attrs, ident |-> ident, inline |-> inline, pos |-> pos]

\* `mac` is the macro's path, `name` the ident of a `macro_rules! name`
MacroItem(attrs, mac, name, tokens) ==
    [it |-> "Macro", attrs |-> attrs, mac |-> mac, name |-> name, tokens |-> tokens]

StructItem(attrs, vis, ident, fields) ==
    [it |-> "Struct", attrs |-> attrs, vis |-> vis, ident |-> ident, fields |-> fields]

UseItem(vis, tree) == [it |-> "Use", vis |-> vis, tree |-> tree]

OtherItem == [it |-> "Other"]

\* syn::UseTree
UsePath(ident, tree) == [u |-> "Path", ident |-> ident, tree |-> tree]

UseRename(ident, rename) == [u |-> "Rename", ident |-> ident, rename |-> rename]

UseGroup(items) == [u |-> "Group", items |-> items]

UseName(ident) == [u |-> "Name", ident |-> ident]

UseGlob == [u |-> "Glob"]

(***************************************************************************)
(* load_aliases (parse.rs:666-679): the alias table after one use tree.    *)
(***************************************************************************)
RECURSIVE load_aliases(_, _)
RECURSIVE load_group(_, _)
load_group(items, aliases) ==
    IF items = <<>> THEN aliases
    ELSE load_group(Tail(items), load_aliases(Head(items), aliases))

load_aliases(use_tree, aliases) ==
    IF use_tree.u = "Path" THEN load_aliases(use_tree.tree, aliases)
    ELSE IF use_tree.u = "Rename" THEN Insert(aliases, use_tree.rename, use_tree.ident)
    ELSE IF use_tree.u = "Group" THEN load_group(use_tree.items, aliases)
    ELSE aliases

(***************************************************************************)
(* parsing::parse_token_macro (parse.rs:430-446): the entries              *)
(* `[spelling] => { $path };` inserted in order, the symbol being the last *)
(* segment of the path.                                                    *)
(***************************************************************************)
TokenEntry(spelling, path) == [pattern |-> spelling, path |-> path]

RECURSIVE token_entries(_, _)
token_entries(tokens, entries) ==
    IF entries = <<>> THEN tokens
    ELSE LET e == Head(entries)
             ty == e.path[Len(e.path)]
         IN token_entries(Insert(tokens, e.pattern, ty), Tail(entries))

parse_token_macro(entries) == token_entries(EmptyMap, entries)

\* Ord of String on the spellings of the model, smallest first
SpellingOrder == <<"+", ",", ";", "=>", "fn">>

\* Ord of Ident on the identifiers of the model, smallest first
IdentOrder ==
    <<"Expr", "ExprLit", "GenericParam", "Ident", "Item", "Lifetime", "Lit",
      "PatLit", "Path", "Span", "String", "Verbatim">>

\* the keys of a BTreeMap in the order it iterates them
SortedKeys(map, order) == SelectSeq(order, LAMBDA key : key \in DOMAIN map)

\* lookup.tokens.into_iter().map(|(name, ty)| (ty, name)).collect()
\* (parse.rs:49-53): the pairs are inserted in the order of the spellings
RECURSIVE invert_from(_, _, _)
invert_from(out, tokens, keys) ==
    IF keys = <<>> THEN out
    ELSE invert_from(Insert(out, tokens[Head(keys)], Head(keys)), tokens, Tail(keys))

invert_tokens(tokens) ==
    invert_from(EmptyMap, tokens, SortedKeys(tokens, SpellingOrder))

\* LoadFileError (parse.rs:529-536, 551-556) around a syn::Error
LoadFileError(path, pos) ==
    [t |-> "err", located |-> TRUE, path |-> path, line |-> pos.line,
     column |-> pos.column + 1]

\* an error that is no syn::Error at load_file, or that never passes one
PlainError(kind) == [t |-> "err", located |-> FALSE, kind |-> kind]

Frame(path, features, idx) == [path |-> path, features |-> features, idx |-> idx]

(***************************************************************************)
(* parse() step by step (parse.rs:30-60): load_token_file, the crawl of    *)
(* load_file / do_load_file from the crate root, then introspect_item over *)
(* the node table.                                                         *)
(***************************************************************************)
Top == stack[Len(stack)]

CurFile == fs[Top.path]

CurItem == CurFile.items[Top.idx]

AtItem(kind) ==
    /\ pc = "crawl"
    /\ Top.idx >= 1
    /\ Top.idx <= Len(CurFile.items)
    /\ CurItem.it = kind

\* the item is done: the loop of parse.rs:572 goes on with the next one
Advance == [stack EXCEPT ![Len(stack)].idx = @ + 1]

\* Fail noting the error and going on to the node table.
Fail_goes_on(error) ==
    /\ pc' = "assemble"
    /\ result' = error
    /\ stack' = <<>>

\* an Err leaves every load_file in progress (parse.rs:607, 39) and parse()
Fail(error) ==
    /\ pc' = "err"
    /\ result' = error
    /\ stack' = <<>>

\* the first `macro_rules! Token` of the token file (parse.rs:687-696)
TokenMacros(file) ==
    {i \in DOMAIN file.items : file.items[i].it = "Macro" /\ file.items[i].name = "Token"}

FirstTokenMacro(file) ==
    file.items[CHOOSE i \in TokenMacros(file) : \A j \in TokenMacros(file) : i <= j]

\* load_token_file returns the table (parse.rs:31, 681-695); the crawl starts
LoadTokenFile ==
    /\ pc = "tokens"
    /\ TOKEN_SRC \in DOMAIN fs
    /\ fs[TOKEN_SRC].ok
    /\ TokenMacros(fs[TOKEN_SRC]) # {}
    /\ FirstTokenMacro(fs[TOKEN_SRC]).tokens.ok
    /\ lookup' = Lookup(EmptyMap,
                        parse_token_macro(FirstTokenMacro(fs[TOKEN_SRC]).tokens.entries),
                        EmptyMap)
    /\ loaded' = Append(loaded, TOKEN_SRC)
    /\ stack' = <<Frame(SYN_CRATE_ROOT, <<>>, 0)>>
    /\ pc' = "crawl"
    /\ UNCHANGED <<fs, nodes, result>>
    /\ UNCHANGED <<fvars, tIn, tOut, tPc>>

\* load_token_file fails: the file cannot be read, is no valid syntax, or
\* the macro body is none (parse.rs:685, 686, 693); no LoadFileError is made
LoadTokenFileError ==
    /\ pc = "tokens"
    /\ \/ TOKEN_SRC \notin DOMAIN fs
       \/ /\ TOKEN_SRC \in DOMAIN fs
          /\ \/ ~fs[TOKEN_SRC].ok
             \/ /\ fs[TOKEN_SRC].ok
                /\ TokenMacros(fs[TOKEN_SRC]) # {}
                /\ ~FirstTokenMacro(fs[TOKEN_SRC]).tokens.ok
    /\ Fail(PlainError(IF TOKEN_SRC \in DOMAIN fs THEN "syn" ELSE "io"))
    /\ loaded' = Append(loaded, TOKEN_SRC)
    /\ UNCHANGED <<fs, nodes, lookup>>
    /\ UNCHANGED <<fvars, tIn, tOut, tPc>>

\* the token file holds no `macro_rules! Token` (parse.rs:698)
LoadTokenFilePanic ==
    /\ pc = "tokens"
    /\ TOKEN_SRC \in DOMAIN fs
    /\ fs[TOKEN_SRC].ok
    /\ TokenMacros(fs[TOKEN_SRC]) = {}
    /\ pc' = "panic"
    /\ result' = Panic("failed to parse Token macro")
    /\ loaded' = Append(loaded, TOKEN_SRC)
    /\ UNCHANGED <<fs, nodes, lookup, stack>>
    /\ UNCHANGED <<fvars, tIn, tOut, tPc>>

\* do_load_file reads and parses its file (parse.rs:568-569)
OpenFile ==
    /\ pc = "crawl"
    /\ Top.idx = 0
    /\ Top.path \in DOMAIN fs
    /\ CurFile.ok
    /\ loaded' = Append(loaded, Top.path)
    /\ stack' = Advance
    /\ UNCHANGED <<fs, pc, nodes, result, lookup>>
    /\ UNCHANGED <<fvars, tIn, tOut, tPc>>

\* the file cannot be read: the io::Error is no syn::Error and passes
\* load_file as it is (parse.rs:568, 548)
OpenFileMissing ==
    /\ pc = "crawl"
    /\ Top.idx = 0
    /\ Top.path \notin DOMAIN fs
    /\ Fail(PlainError("io"))
    /\ loaded' = Append(loaded, Top.path)
    /\ UNCHANGED <<fs, nodes, lookup>>
    /\ UNCHANGED <<fvars, tIn, tOut, tPc>>

\* syn::parse_file fails: load_file of this file makes the LoadFileError,
\* which the load_file calls above pass on (parse.rs:569, 548-556)
OpenFileSyntaxError ==
    /\ pc = "crawl"
    /\ Top.idx = 0
    /\ Top.path \in DOMAIN fs
    /\ ~CurFile.ok
    /\ Fail(LoadFileError(Top.path, CurFile.pos))
    /\ loaded' = Append(loaded, Top.path)
    /\ UNCHANGED <<fs, nodes, lookup>>
    /\ UNCHANGED <<fvars, tIn, tOut, tPc>>

\* an inline module is not inspected (parse.rs:576-578)
ModInline ==
    /\ AtItem("Mod")
    /\ CurItem.inline
    /\ stack' = Advance
    /\ UNCHANGED <<fs, pc, loaded, nodes, result, lookup>>
    /\ UNCHANGED <<fvars, tIn, tOut, tPc>>

\* a module of IGNORED_MODS is passed over (parse.rs:582-586)
ModIgnored ==
    /\ AtItem("Mod")
    /\ ~CurItem.inline
    /\ CurItem.ident \in IGNORED_MODS
    /\ stack' = Advance
    /\ UNCHANGED <<fs, pc, loaded, nodes, result, lookup>>
    /\ UNCHANGED <<fvars, tIn, tOut, tPc>>

Followed(item) == ~item.inline /\ item.ident \notin IGNORED_MODS

\* mod_features without the case of the derive module.
mod_features_plain(item, features) == get_features(item.attrs, features)

\* the features a followed module's file is crawled with (parse.rs:593-597)
mod_features(item, features) ==
    IF item.ident = "derive" THEN <<DeriveAttr>>
    ELSE get_features(item.attrs, features)

\* mod_filename without the path attribute.
mod_filename_default(item) == rs_file(item.ident)

\* the file name of a followed module (parse.rs:601-605)
mod_filename(item) ==
    IF path_attr(item.attrs).t = "some" THEN path_attr(item.attrs).value
    ELSE rs_file(item.ident)

\* ModEnter passing over the module without loading its file.
ModEnter_later ==
    /\ AtItem("Mod")
    /\ Followed(CurItem)
    /\ path_attr(CurItem.attrs).t # "err"
    /\ stack' = Advance
    /\ UNCHANGED <<fs, pc, loaded, nodes, result, lookup>>
    /\ UNCHANGED <<fvars, tIn, tOut, tPc>>

\* load_file is called for a followed module (parse.rs:593-607)
ModEnter ==
    /\ AtItem("Mod")
    /\ Followed(CurItem)
    /\ path_attr(CurItem.attrs).t # "err"
    /\ Len(stack) < MaxStack
    /\ stack' = Append(Advance,
                       Frame(join(parent(Top.path), mod_filename(CurItem)),
                             mod_features(CurItem, Top.features), 0))
    /\ UNCHANGED <<fs, pc, loaded, nodes, result, lookup>>
    /\ UNCHANGED <<fvars, tIn, tOut, tPc>>

\* the `path` attribute of a followed module is no `= "literal"`
\* (parse.rs:601, 498): a syn::Error of the file that declares the module
ModPathError ==
    /\ AtItem("Mod")
    /\ Followed(CurItem)
    /\ path_attr(CurItem.attrs).t = "err"
    /\ Fail(LoadFileError(Top.path, CurItem.pos))
    /\ UNCHANGED <<fs, loaded, nodes, lookup>>
    /\ UNCHANGED <<fvars, tIn, tOut, tPc>>

\* the recursion of load_file is deeper than the model follows it
ModTooDeep ==
    /\ AtItem("Mod")
    /\ Followed(CurItem)
    /\ path_attr(CurItem.attrs).t # "err"
    /\ Len(stack) >= MaxStack
    /\ pc' = "overflow"
    /\ UNCHANGED <<fs, stack, loaded, nodes, result, lookup>>
    /\ UNCHANGED <<fvars, tIn, tOut, tPc>>

\* the parser the macro's path selects (parse.rs:616-624)
recognize(item) ==
    IF item.mac = "ast_struct" THEN ast_struct(item.tokens)
    ELSE IF item.mac = "ast_enum" THEN ast_enum(item.tokens)
    ELSE IF item.mac = "ast_enum_of_structs" THEN ast_enum_of_structs(item.tokens)
    ELSE NotFound

\* a declaration is recognized and recorded with the features of its file
\* and its own cfg attributes (parse.rs:612-630)
MacroRecord ==
    /\ AtItem("Macro")
    /\ recognize(CurItem).t = "some"
    /\ LET found == recognize(CurItem).item
           features == get_features(CurItem.attrs, Top.features)
           item == AstItem(found.ast, found.features \o clone_features(features))
       IN lookup' = [lookup EXCEPT !.items = Insert(@, found.ast.ident, item)]
    /\ stack' = Advance
    /\ UNCHANGED <<fs, pc, loaded, nodes, result>>
    /\ UNCHANGED <<fvars, tIn, tOut, tPc>>

\* another macro, or an ast_enum marked #no_visit (parse.rs:623, 627)
MacroSkip ==
    /\ AtItem("Macro")
    /\ recognize(CurItem).t = "none"
    /\ stack' = Advance
    /\ UNCHANGED <<fs, pc, loaded, nodes, result, lookup>>
    /\ UNCHANGED <<fvars, tIn, tOut, tPc>>

\* the declaration does not parse (parse.rs:617-621): a syn::Error of this file
MacroError ==
    /\ AtItem("Macro")
    /\ recognize(CurItem).t = "err"
    /\ Fail(LoadFileError(Top.path, CurItem.tokens.pos))
    /\ UNCHANGED <<fs, loaded, nodes, lookup>>
    /\ UNCHANGED <<fvars, tIn, tOut, tPc>>

\* a plain struct of EXTRA_TYPES is recorded (parse.rs:632-653)
StructRecord ==
    /\ AtItem("Struct")
    /\ CurItem.ident \in EXTRA_TYPES
    /\ LET item == AstItem(DeriveInput(CurItem.attrs, CurItem.ident,
                                       DataStruct(CurItem.fields)),
                           clone_features(Top.features))
       IN lookup' = [lookup EXCEPT !.items = Insert(@, CurItem.ident, item)]
    /\ stack' = Advance
    /\ UNCHANGED <<fs, pc, loaded, nodes, result>>
    /\ UNCHANGED <<fvars, tIn, tOut, tPc>>

\* any other plain struct (parse.rs:634)
StructSkip ==
    /\ AtItem("Struct")
    /\ CurItem.ident \notin EXTRA_TYPES
    /\ stack' = Advance
    /\ UNCHANGED <<fs, pc, loaded, nodes, result, lookup>>
    /\ UNCHANGED <<fvars, tIn, tOut, tPc>>

\* use_scanned in every file.
use_scanned_anywhere(path, vis) == is_pub(vis)

\* the guard of the Item::Use arm (parse.rs:655-656)
use_scanned(path, vis) == path = SYN_CRATE_ROOT /\ is_pub(vis)

\* a public `use` of the crate root (parse.rs:654-659)
UseAliases ==
    /\ AtItem("Use")
    /\ use_scanned(Top.path, CurItem.vis)
    /\ lookup' = [lookup EXCEPT !.aliases = load_aliases(CurItem.tree, @)]
    /\ stack' = Advance
    /\ UNCHANGED <<fs, pc, loaded, nodes, result>>
    /\ UNCHANGED <<fvars, tIn, tOut, tPc>>

\* every other item (parse.rs:660)
ItemSkip ==
    /\ \/ AtItem("Other")
       \/ AtItem("Use") /\ ~use_scanned(Top.path, CurItem.vis)
    /\ stack' = Advance
    /\ UNCHANGED <<fs, pc, loaded, nodes, result, lookup>>
    /\ UNCHANGED <<fvars, tIn, tOut, tPc>>

\* do_load_file and load_file return Ok (parse.rs:663, 544); after the load
\* of the crate root parse() goes on to the node table (parse.rs:39-43)
FileReturn ==
    /\ pc = "crawl"
    /\ Top.idx >= 1
    /\ Top.idx > Len(CurFile.items)
    /\ stack' = SubSeq(stack, 1, Len(stack) - 1)
    /\ pc' = IF Len(stack) = 1 THEN "assemble" ELSE "crawl"
    /\ UNCHANGED <<fs, loaded, nodes, result, lookup>>
    /\ UNCHANGED <<fvars, tIn, tOut, tPc>>

\* ItemValues from the greatest key to the smallest.
ItemValuesDescending ==
    LET keys == SortedKeys(lookup.items, IdentOrder) IN
    [i \in DOMAIN keys |-> keys[Len(keys) + 1 - i]]

\* lookup.items.values(), in the order of the BTreeMap (parse.rs:43-45)
ItemValues == SortedKeys(lookup.items, IdentOrder)

NextNode == introspect_item(lookup.items[ItemValues[Len(nodes) + 1]], lookup)

\* introspect_item of the next item of the node table (parse.rs:46)
IntrospectItem ==
    /\ pc = "assemble"
    /\ Len(nodes) < Len(ItemValues)
    /\ ~Aborts(NextNode)
    /\ nodes' = Append(nodes, NextNode)
    /\ UNCHANGED <<fs, pc, stack, loaded, result, lookup>>
    /\ UNCHANGED <<fvars, tIn, tOut, tPc>>

\* introspect_item panics, or never returns: parse() returns nothing
IntrospectAbort ==
    /\ pc = "assemble"
    /\ Len(nodes) < Len(ItemValues)
    /\ Aborts(NextNode)
    /\ pc' = IF NextNode.t = "hang" THEN "hang" ELSE "panic"
    /\ result' = NextNode
    /\ UNCHANGED <<fs, stack, loaded, nodes, lookup>>
    /\ UNCHANGED <<fvars, tIn, tOut, tPc>>

\* types::Definitions of parse.rs:49-59
Definitions(types, tokens) == [t |-> "ok", types |-> types, tokens |-> tokens]

\* every item is introspected: the token table is inverted and the
\* Definitions are returned (parse.rs:49-59)
Finish ==
    /\ pc = "assemble"
    /\ Len(nodes) = Len(ItemValues)
    /\ result' = Definitions(nodes, invert_tokens(lookup.tokens))
    /\ pc' = "done"
    /\ UNCHANGED <<fs, stack, loaded, nodes, lookup>>
    /\ UNCHANGED <<fvars, tIn, tOut, tPc>>

Next ==
    \/ LoadTokenFile
    \/ LoadTokenFileError
    \/ LoadTokenFilePanic
    \/ OpenFile
    \/ OpenFileMissing
    \/ OpenFileSyntaxError
    \/ ModInline
    \/ ModIgnored
    \/ ModEnter
    \/ ModPathError
    \/ ModTooDeep
    \/ MacroRecord
    \/ MacroSkip
    \/ MacroError
    \/ StructRecord
    \/ StructSkip
    \/ UseAliases
    \/ ItemSkip
    \/ FileReturn
    \/ IntrospectItem
    \/ IntrospectAbort
    \/ Finish

(***************************************************************************)
(* The source trees parse() is run on.                                     *)
(***************************************************************************)
\* sequences over S of at most n members whose `key` fields differ
DistinctSeqs(S, n, key(_)) ==
    {q \in SeqsUpTo(S, n) : \A i, j \in DOMAIN q : i # j => key(q[i]) # key(q[j])}

NoPos == Pos(1, 0)

\* `macro_rules! Token { entries }`
TokenMacro(entries) ==
    MacroItem(<<>>, "macro_rules", "Token", [ok |-> TRUE, pos |-> NoPos, entries |-> entries])

TokenFileOf(entries) == ParsedFile(<<OtherItem, TokenMacro(entries)>>)

TokenEntryPool ==
    {TokenEntry(sp, <<"crate", "token", sym>>) :
        sp \in {"+", ",", ";"}, sym \in {"Add", "Comma", "Semi"}}

DefaultTokenFile ==
    TokenFileOf(<<TokenEntry("+", <<"crate", "token", "Add">>),
                  TokenEntry(",", <<"crate", "token", "Comma">>),
                  TokenEntry(";", <<"crate", "token", "Semi">>)>>)

TokenFiles ==
    {TokenFileOf(es) : es \in SeqsUpTo(TokenEntryPool, MaxTokens)}
    \cup {BrokenFile(Pos(3, 7)),
          ParsedFile(<<OtherItem>>),
          ParsedFile(<<MacroItem(<<>>, "macro_rules", "Token",
                                 [ok |-> FALSE, pos |-> Pos(2, 4), entries |-> <<>>])>>),
          ParsedFile(<<MacroItem(<<>>, "macro_rules", "export_token_macro",
                                 [ok |-> TRUE, pos |-> NoPos, entries |-> <<>>]),
                       TokenMacro(<<TokenEntry("fn", <<"crate", "token", "Fn">>)>>),
                       TokenMacro(<<TokenEntry("=>", <<"crate", "token", "FatArrow">>)>>)>>)}

\* the types of the fields and payloads of the generated declarations
MemberTypes ==
    {NameTy("Expr"), NameTy("Span"), NameTy("Symbol"),
     PathTy("Option", Angle(<<TyArg(PathTy("Box", Angle(<<TyArg(NameTy("PatLit"))>>)))>>))}

FieldPool ==
    {Field(vis, n, ty) : vis \in {"pub", "inherited"},
                         n \in {"attrs", "expr", "span"}, ty \in MemberTypes}

FieldName(f) == f.ident

FieldLists ==
    {Fields("Named", q) : q \in DistinctSeqs(FieldPool, MaxMembers, FieldName)}
    \cup {UnitFields,
          Fields("Unnamed", <<Field("pub", "", NameTy("Expr"))>>),
          Fields("Unnamed", <<Field("inherited", "", NameTy("Symbol"))>>)}

\* ast_struct! { pub struct Item [#full] fields }
StructTokens(ident, isfull, fields) ==
    [ok |-> TRUE, pos |-> NoPos, attrs |-> <<>>, ident |-> ident,
     full |-> isfull, fields |-> fields]

StructDecls ==
    {MacroItem(<<>>, "ast_struct", "", StructTokens("Item", isfull, fields)) :
        isfull \in BOOLEAN, fields \in FieldLists}

DocHidden == Attr("doc", "hidden", <<>>)

NonExhaustive == Attr("non_exhaustive", "other", <<>>)

\* structs marked #[non_exhaustive]: ast_struct! declarations and Lifetime
MarkedStructDecls ==
    {MacroItem(<<>>, "ast_struct", "",
               [StructTokens("Item", FALSE, fields) EXCEPT !.attrs = <<NonExhaustive>>]) :
        fields \in {UnitFields,
                    Fields("Named", <<Field("pub", "expr", NameTy("Expr"))>>),
                    Fields("Named", <<Field("inherited", "expr", NameTy("Expr"))>>)}}
    \cup {StructItem(<<NonExhaustive>>, "pub", "Lifetime",
                     Fields("Named", <<Field("pub", "ident", NameTy("Ident"))>>))}

VariantPool ==
    {Variant(attrs, n, fields) :
        attrs \in {<<>>, <<DocHidden>>},
        n \in {"Lit", "Path", "Verbatim"},
        fields \in {UnitFields,
                    Fields("Unnamed", <<Field("inherited", "", NameTy("Expr"))>>),
                    Fields("Unnamed", <<Field("inherited", "", NameTy("Symbol"))>>),
                    Fields("Unnamed", <<Field("inherited", "", NameTy("PatLit")),
                                        Field("inherited", "", NameTy("Span"))>>),
                    Fields("Named", <<Field("inherited", "expr", NameTy("Expr"))>>)}}

VariantName(v) == v.ident

\* ast_enum! { attrs pub enum Item [#no_visit] { variants } }
EnumTokens(attrs, ident, no_visit, variants) ==
    [ok |-> TRUE, pos |-> NoPos, attrs |-> attrs, ident |-> ident,
     no_visit |-> no_visit, variants |-> variants]

EnumDecls ==
    {MacroItem(<<>>, "ast_enum", "", EnumTokens(attrs, "Item", FALSE, vs)) :
        attrs \in {<<>>, <<NonExhaustive>>},
        vs \in DistinctSeqs(VariantPool, MaxMembers, VariantName)}

Member(ident, arguments) == [some |-> TRUE, ident |-> ident, arguments |-> arguments]

NoMember == [some |-> FALSE, ident |-> "", arguments |-> NoArgs]

EosEntry(attrs, name, member) == [attrs |-> attrs, name |-> name, member |-> member]

EntryPool ==
    {EosEntry(attrs, n, member) :
        attrs \in {<<>>, <<DocHidden>>},
        n \in {"Lit", "Path", "Verbatim"},
        member \in {NoMember, Member("Expr", NoArgs), Member("Symbol", NoArgs),
                    Member("Box", Angle(<<TyArg(NameTy("PatLit"))>>))}}

EntryName(e) == e.name

\* ast_enum_of_structs! { attrs pub enum Item { entries } }
EosTokens(attrs, ident, entries) ==
    [ok |-> TRUE, pos |-> NoPos, attrs |-> attrs, ident |-> ident, entries |-> entries]

EosDecls ==
    {MacroItem(<<>>, "ast_enum_of_structs", "", EosTokens(attrs, "Item", es)) :
        attrs \in {<<>>, <<NonExhaustive>>},
        es \in DistinctSeqs(EntryPool, MaxMembers, EntryName)}

\* a crate root that renames Expr to PatLit, declares the node Expr and
\* holds one more declaration
RootWith(decl) ==
    ParsedFile(<<UseItem("pub", UsePath("expr", UseRename("Expr", "PatLit"))),
                 MacroItem(<<>>, "ast_struct", "", StructTokens("Expr", FALSE, UnitFields)),
                 decl>>)

\* the file system of a token file and the files of the crate
SourceTree(tokenfile, files) ==
    [path \in DOMAIN files \cup {TOKEN_SRC} |->
        IF path = TOKEN_SRC THEN tokenfile ELSE files[path]]

OneFile(path, file) == [p \in {path} |-> file]

\* the files named by a list of <<path, file>> pairs
FilesOf(pairs) ==
    [path \in {pairs[i][1] : i \in DOMAIN pairs} |->
        pairs[CHOOSE i \in DOMAIN pairs : pairs[i][1] = path][2]]

Src(file) == PathOf("src", file)

PathAttr(file) == Attr("path", "value", <<file>>)

\* a crate of several modules
CrateRoot ==
    ParsedFile(<<
        ModItem(<<CfgAny(<<"full", "derive">>)>>, "expr", FALSE, NoPos),
        ModItem(<<CfgFeature("full")>>, "derive", FALSE, NoPos),
        ModItem(<<PathAttr("generics.rs")>>, "params", FALSE, NoPos),
        ModItem(<<>>, "visit", FALSE, NoPos),
        ModItem(<<>>, "gen_helper", TRUE, NoPos),
        UseItem("pub", UsePath("expr",
                    UseGroup(<<UseName("Expr"), UseRename("ExprLit", "PatLit"), UseGlob>>))),
        UseItem("inherited", UseRename("Lit", "Literal")),
        StructItem(<<>>, "pub", "Lifetime",
                   Fields("Named", <<Field("inherited", "apostrophe", NameTy("Span")),
                                     Field("pub", "ident", NameTy("Ident"))>>)),
        StructItem(<<>>, "pub", "Helper", UnitFields),
        OtherItem,
        MacroItem(<<>>, "thread_local", "", [ok |-> TRUE, pos |-> NoPos])
    >>)

CrateExpr ==
    ParsedFile(<<
        MacroItem(<<>>, "ast_enum_of_structs", "",
                  EosTokens(<<>>, "Expr",
                            <<EosEntry(<<>>, "Lit", Member("ExprLit", NoArgs)),
                              EosEntry(<<DocHidden>>, "Verbatim", NoMember)>>)),
        MacroItem(<<>>, "ast_struct", "",
                  StructTokens("ExprLit", TRUE,
                               Fields("Named",
                                      <<Field("pub", "lit", NameTy("Lit")),
                                        Field("pub", "pat", PathTy("Box", Angle(<<TyArg(NameTy("PatLit"))>>)))>>))),
        ModItem(<<>>, "lit", FALSE, NoPos),
        UseItem("pub", UseRename("Expr", "Item")),
        MacroItem(<<>>, "ast_enum", "", EnumTokens(<<>>, "Verbatim", TRUE, <<>>))
    >>)

CrateLit ==
    ParsedFile(<<
        MacroItem(<<>>, "ast_enum", "",
                  EnumTokens(<<NonExhaustive>>, "Lit", FALSE,
                             <<Variant(<<>>, "Str", Fields("Unnamed", <<Field("inherited", "", NameTy("String"))>>)),
                               Variant(<<>>, "Verbatim", UnitFields)>>))
    >>)

CrateDerive ==
    ParsedFile(<<
        MacroItem(<<CfgFeature("derive")>>, "ast_struct", "",
                  StructTokens("Item", FALSE,
                               Fields("Named",
                                      <<Field("pub", "ident", NameTy("Ident")),
                                        Field("pub", "semi", TokenTy(";"))>>)))
    >>)

CrateGenerics ==
    ParsedFile(<<
        MacroItem(<<>>, "ast_enum_of_structs", "",
                  EosTokens(<<>>, "GenericParam",
                            <<EosEntry(<<>>, "Lifetime", Member("Lifetime", NoArgs))>>))
    >>)

CrateTree ==
    FilesOf(<< <<SYN_CRATE_ROOT, CrateRoot>>, <<Src("expr.rs"), CrateExpr>>,
               <<Src("lit.rs"), CrateLit>>, <<Src("derive.rs"), CrateDerive>>,
               <<Src("generics.rs"), CrateGenerics>> >>)

\* the root of the spec's example: ast_struct! { pub struct Ident { pub sym:
\* <sym>, pub span: Span } }
IdentRoot(sym) ==
    ParsedFile(<<MacroItem(<<>>, "ast_struct", "",
                           StructTokens("Ident", FALSE,
                                        Fields("Named",
                                               <<Field("pub", "sym", NameTy(sym)),
                                                 Field("pub", "span", NameTy("Span"))>>)))>>)

OneMod(attrs, ident, pos) == ParsedFile(<<ModItem(attrs, ident, FALSE, pos)>>)

\* trees on which the crawl fails, or does not end
FailingTrees ==
    {EmptyMap,
     OneFile(SYN_CRATE_ROOT, BrokenFile(Pos(1, 0))),
     OneFile(SYN_CRATE_ROOT, OneMod(<<>>, "expr", NoPos)),
     FilesOf(<< <<SYN_CRATE_ROOT, OneMod(<<>>, "expr", NoPos)>>,
                <<Src("expr.rs"), OneMod(<<>>, "lit", NoPos)>>,
                <<Src("lit.rs"), BrokenFile(Pos(4, 2))>> >>),
     OneFile(SYN_CRATE_ROOT,
             ParsedFile(<<MacroItem(<<>>, "ast_struct", "",
                                    [ok |-> FALSE, pos |-> Pos(6, 11)])>>)),
     OneFile(SYN_CRATE_ROOT, OneMod(<<Attr("path", "other", <<>>)>>, "expr", Pos(2, 7))),
     OneFile(SYN_CRATE_ROOT, OneMod(<<PathAttr("lib.rs")>>, "again", NoPos)),
     FilesOf(<< <<SYN_CRATE_ROOT,
                  ParsedFile(<<MacroItem(<<>>, "ast_struct", "",
                                         StructTokens("Expr", FALSE, UnitFields)),
                               ModItem(<<>>, "expr", FALSE, NoPos),
                               ModItem(<<>>, "lit", FALSE, NoPos)>>)>>,
                <<Src("expr.rs"), BrokenFile(Pos(2, 0))>>,
                <<Src("lit.rs"), CrateLit>> >>)}

\* the declaration of the model under each of three names
DeclNamed(n) ==
    MacroItem(<<>>, "ast_struct", "",
              StructTokens(n, n = "Lit",
                           IF n = "Item"
                           THEN Fields("Named", <<Field("pub", "expr", NameTy("Expr"))>>)
                           ELSE UnitFields))

\* crate roots that hold the same three declarations in every order
PermutedRoots ==
    {ParsedFile([i \in 1..3 |-> DeclNamed(q[i])]) :
        q \in {p \in [1..3 -> {"Expr", "Item", "Lit"}] :
                 \A i, j \in 1..3 : i # j => p[i] # p[j]}}

\* the cfg attributes tried on a module declaration
ModAttrs ==
    {<<>>, <<CfgFeature("full")>>, <<CfgFeature("printing")>>,
     <<CfgAny(<<"full", "derive">>)>>}

\* the declarations of the innermost module file
ModDecls ==
    {<<>>,
     <<DeclNamed("Item")>>,
     <<DeclNamed("Item"),
       MacroItem(<<CfgFeature("derive")>>, "ast_enum", "",
                 EnumTokens(<<>>, "Path", FALSE, <<>>))>>}

\* a crate root with `inherited mod expr;`, expr.rs with the node Expr and
\* `declared mod name;`, and the file of that module
ModTree(inherited, declared, name, decls) ==
    FilesOf(<< <<SYN_CRATE_ROOT, ParsedFile(<<ModItem(inherited, "expr", FALSE, NoPos)>>)>>,
               <<Src("expr.rs"), ParsedFile(<<DeclNamed("Expr"),
                                              ModItem(declared, name, FALSE, NoPos)>>)>>,
               <<Src(rs_file(name)), ParsedFile(decls)>> >>)

ModTrees ==
    {ModTree(inherited, declared, name, decls) :
        inherited \in ModAttrs \ {<<CfgFeature("printing")>>}, declared \in ModAttrs,
        name \in {"lit", "derive"}, decls \in ModDecls}

\* a crate root with one module declaration that is inline or has a
\* skipped name, beside files that each hold a declaration
SkipTree(attrs, name, inline) ==
    [path \in {SYN_CRATE_ROOT} \cup {Src(rs_file(n)) : n \in {"fold", "visit", "visit_mut", "expr", "lit"}} |->
        IF path = SYN_CRATE_ROOT
        THEN ParsedFile(<<ModItem(attrs, name, inline, Pos(2, 7))>>)
        ELSE ParsedFile(<<DeclNamed("Expr")>>)]

SkipTrees ==
    {SkipTree(attrs, e[1], e[2]) :
        attrs \in {<<>>, <<CfgFeature("printing"), CfgFeature("full")>>,
                   <<PathAttr("lit.rs")>>, <<Attr("path", "other", <<>>)>>},
        e \in {<<"fold", FALSE>>, <<"visit", FALSE>>, <<"visit_mut", FALSE>>,
               <<"visit", TRUE>>, <<"expr", TRUE>>, <<"expr", FALSE>>}}

\* crates whose module declarations name files through `path` attributes:
\* the module derive with an override, two modules that name one file, and
\* a module file that names the crate root
PathTrees ==
    {FilesOf(<< <<SYN_CRATE_ROOT,
                  ParsedFile(<<ModItem(<<PathAttr("lit.rs")>>, "derive", FALSE, NoPos)>>)>>,
                <<Src("lit.rs"),
                  ParsedFile(<<DeclNamed("Expr"),
                               StructItem(<<>>, "pub", "Helper", UnitFields),
                               StructItem(<<>>, "pub", "Lifetime",
                                          Fields("Named", <<Field("pub", "ident", NameTy("Ident"))>>))>>)>>,
                <<Src("derive.rs"), ParsedFile(<<DeclNamed("Lit")>>)>> >>),
     FilesOf(<< <<SYN_CRATE_ROOT,
                  ParsedFile(<<ModItem(<<>>, "lit", FALSE, NoPos),
                               ModItem(<<PathAttr("lit.rs")>>, "expr", FALSE, NoPos)>>)>>,
                <<Src("lit.rs"), ParsedFile(<<DeclNamed("Lit")>>)>>,
                <<Src("expr.rs"), ParsedFile(<<DeclNamed("Expr")>>)>> >>),
     FilesOf(<< <<SYN_CRATE_ROOT, OneMod(<<>>, "expr", NoPos)>>,
                <<Src("expr.rs"), OneMod(<<PathAttr("lib.rs")>>, "again", NoPos)>> >>)}

\* crate roots with an ast_enum! marked #no_visit: of payloads that no
\* Node could have, of tokens that are no enum body, under a cfg attribute,
\* and under the identifier of another declaration
NoVisitRoots ==
    {ParsedFile(<<DeclNamed("Expr"),
                  MacroItem(attrs, "ast_enum", "",
                            EnumTokens(<<>>, "Item", TRUE,
                                       <<Variant(<<>>, "Lit",
                                                 Fields("Unnamed", <<Field("inherited", "", NameTy("Symbol"))>>))>>))>>) :
        attrs \in {<<>>, <<CfgFeature("full")>>}}
    \cup {ParsedFile(<<MacroItem(<<>>, "ast_enum", "",
                                 [EnumTokens(<<NonExhaustive>>, "Item", TRUE, <<>>) EXCEPT !.ok = FALSE]),
                       DeclNamed("Expr")>>),
          ParsedFile(<<DeclNamed("Expr"),
                       MacroItem(<<>>, "ast_enum", "",
                                 EnumTokens(<<>>, "Expr", TRUE,
                                            <<Variant(<<>>, "Lit", UnitFields)>>))>>)}

\* an ast_enum! and an ast_enum_of_structs! declaration under cfg(full)
FullEnum(ident) ==
    MacroItem(<<CfgFeature("full")>>, "ast_enum", "",
              EnumTokens(<<NonExhaustive>>, ident, FALSE,
                         <<Variant(<<>>, "Lit", UnitFields),
                           Variant(<<>>, "Path", Fields("Unnamed", <<Field("inherited", "", NameTy("Expr"))>>))>>))

FullEos(ident) ==
    MacroItem(<<CfgFeature("full")>>, "ast_enum_of_structs", "",
              EosTokens(<<>>, ident, <<EosEntry(<<>>, "Lit", Member("Expr", NoArgs))>>))

\* crates that declare an identifier twice, with different shapes and
\* features: in one file in both orders, as a macro form and a plain
\* struct, and in two files in both crawl orders
DuplicateTrees ==
    {OneFile(SYN_CRATE_ROOT, ParsedFile(<<FullEnum("Item"), DeclNamed("Expr"), DeclNamed("Item")>>)),
     OneFile(SYN_CRATE_ROOT, ParsedFile(<<DeclNamed("Item"), DeclNamed("Expr"), FullEos("Item")>>)),
     OneFile(SYN_CRATE_ROOT,
             ParsedFile(<<DeclNamed("Expr"), FullEnum("Lifetime"),
                          StructItem(<<>>, "pub", "Lifetime",
                                     Fields("Named", <<Field("inherited", "ident", NameTy("Ident"))>>))>>)),
     FilesOf(<< <<SYN_CRATE_ROOT,
                  ParsedFile(<<ModItem(<<CfgAny(<<"full", "derive">>)>>, "lit", FALSE, NoPos),
                               DeclNamed("Expr"), DeclNamed("Item")>>)>>,
                <<Src("lit.rs"), ParsedFile(<<FullEnum("Item")>>)>> >>),
     FilesOf(<< <<SYN_CRATE_ROOT,
                  ParsedFile(<<DeclNamed("Expr"), DeclNamed("Item"),
                               ModItem(<<CfgAny(<<"full", "derive">>)>>, "lit", FALSE, NoPos)>>)>>,
                <<Src("lit.rs"), ParsedFile(<<FullEnum("Item")>>)>> >>)}

\* crate roots whose public renames form a cycle, `Expr as Expr` and
\* `Expr as PatLit, PatLit as Expr`, before the struct Expr and a struct
\* Item with a field of type Expr
CycleRoots ==
    {ParsedFile(<<UseItem("pub", UsePath("expr", tree)), DeclNamed("Expr"), DeclNamed("Item")>>) :
        tree \in {UseRename("Expr", "Expr"),
                  UseGroup(<<UseRename("Expr", "PatLit"), UseRename("PatLit", "Expr")>>)}}

SourceTrees ==
    {SourceTree(tokenfile, CrateTree) : tokenfile \in TokenFiles}
    \cup {SourceTree(DefaultTokenFile, OneFile(SYN_CRATE_ROOT, root)) : root \in CycleRoots}
    \cup {SourceTree(DefaultTokenFile, files) : files \in DuplicateTrees}
    \cup {SourceTree(DefaultTokenFile, OneFile(SYN_CRATE_ROOT, root)) : root \in NoVisitRoots}
    \cup {SourceTree(DefaultTokenFile, files) : files \in PathTrees}
    \cup {SourceTree(DefaultTokenFile, files) : files \in SkipTrees}
    \cup {SourceTree(DefaultTokenFile, files) : files \in ModTrees}
    \cup {SourceTree(DefaultTokenFile, OneFile(SYN_CRATE_ROOT, root)) : root \in PermutedRoots}
    \cup {SourceTree(DefaultTokenFile, OneFile(SYN_CRATE_ROOT, RootWith(decl))) :
            decl \in StructDecls \cup EnumDecls \cup EosDecls \cup MarkedStructDecls}
    \cup {SourceTree(DefaultTokenFile, OneFile(SYN_CRATE_ROOT, IdentRoot(sym))) :
            sym \in {"Symbol", "Literal"}}
    \cup {SourceTree(DefaultTokenFile, files) : files \in FailingTrees}
    \cup {EmptyMap}

Init ==
    /\ fs \in SourceTrees
    /\ pc = "tokens"
    /\ stack = <<>>
    /\ loaded = <<>>
    /\ nodes = <<>>
    /\ result = NoResult
    /\ lookup = EmptyLookup
    /\ fAttrs = <<>> /\ fIdx = 1 /\ fRet = {} /\ fPc = "idle"
    /\ tIn = OtherTy /\ tOut = NoType /\ tPc = "idle"

Spec == Init /\ [][Next]_vars

(***************************************************************************)
(* Properties of the feature-set algebra.                                  *)
(***************************************************************************)
\* The predicate a cfg attribute states, read off its tokens.
PredOf(attr) == Range(attr.names)

IsCfg(attr) == attr.path = "cfg"

\* The predicates accumulated on the declaration, in order.
RECURSIVE PredsOf(_)
PredsOf(attrs) ==
    IF attrs = <<>> THEN <<>>
    ELSE IF IsCfg(Head(attrs)) THEN <<PredOf(Head(attrs))>> \o PredsOf(Tail(attrs))
    ELSE PredsOf(Tail(attrs))

\* Every cfg attribute is a `feature = ".."` or an `any(..)`.
Understood(attrs) ==
    \A i \in DOMAIN attrs : IsCfg(attrs[i]) => attrs[i].form \in {"feature", "any"}

Comparable(P, Q) == P \subseteq Q \/ Q \subseteq P

FeaturesFinished == fPc \in {"done", "panic"}

\* C1: merging two non-empty predicates P (first) and Q (second): Q \subseteq P
\* gives Q, P \subseteq Q gives P, and incomparable P and Q fail an assertion.
C1_MergeTwoNonEmpty ==
    LET ps == PredsOf(fAttrs) IN
    (FeaturesFinished /\ Understood(fAttrs) /\ Len(ps) = 2
        /\ ps[1] # {} /\ ps[2] # {})
    => /\ ps[2] \subseteq ps[1] => (fPc = "done" /\ fRet = ps[2])
       /\ ps[1] \subseteq ps[2] => (fPc = "done" /\ fRet = ps[1])
       /\ ~Comparable(ps[1], ps[2]) => fPc = "panic"

\* C1 witness: a narrower first predicate and a strictly wider second one
\* were merged and the first was kept.
C1_Witness ==
    LET ps == PredsOf(fAttrs) IN
    /\ fPc = "done" /\ Understood(fAttrs) /\ Len(ps) = 2
    /\ ps[1] # {} /\ ps[1] # ps[2] /\ ps[1] \subseteq ps[2]
    /\ fRet = ps[1]

\* C2: a non-empty predicate N and an empty predicate on one declaration, in
\* either order, merge to N.
C2_EmptyAbsorbed ==
    LET ps == PredsOf(fAttrs) IN
    (FeaturesFinished /\ Understood(fAttrs) /\ Len(ps) = 2
        /\ \E i \in 1..2 : ps[i] # {} /\ ps[3 - i] = {})
    => \E i \in 1..2 : ps[i] # {} /\ fPc = "done" /\ fRet = ps[i]

\* C3: when introspect_features returns, every two predicates of the list are
\* related by subset-or-equal in one direction (stated for lists of non-empty
\* predicates, which leaves the handling of the empty predicate to C2).
C3_PairwiseNested ==
    LET ps == PredsOf(fAttrs) IN
    (fPc = "done" /\ Understood(fAttrs) /\ \A i \in DOMAIN ps : ps[i] # {})
    => \A i, j \in DOMAIN ps : Comparable(ps[i], ps[j])

(***************************************************************************)
(* Properties of the type introspector.                                    *)
(***************************************************************************)
NoName == "?"

\* the name n renames lead to from `a`, NoName when the chain ends before
RECURSIVE Walk(_, _, _)
Walk(aliases, a, n) ==
    IF n = 0 THEN a
    ELSE IF a \in DOMAIN aliases THEN Walk(aliases, aliases[a], n - 1)
    ELSE NoName

\* the first name of the alias chain from `a` that the node table holds
RECURSIVE FirstNode(_, _, _)
FirstNode(lkp, a, n) ==
    IF a \in DOMAIN lkp.items THEN a
    ELSE IF n > 0 /\ a \in DOMAIN lkp.aliases
         THEN FirstNode(lkp, lkp.aliases[a], n - 1)
    ELSE NoName

IsPlainName(ty) ==
    ty.k = "Path" /\ ty.arguments = NoArgs /\ ty.ident \notin BuiltinNames

\* C4: a type name A whose alias chain A -> B -> ... -> C (two renames or
\* more) ends at a name C of the node table is introspected to a node
\* reference to C.
C4_AliasChain ==
    (tPc # "call" /\ IsPlainName(tIn))
    => \A n \in 2..Cardinality(DOMAIN lookup.aliases) :
         LET c == Walk(lookup.aliases, tIn.ident, n) IN
         (c # NoName /\ c \notin DOMAIN lookup.aliases /\ c \in DOMAIN lookup.items)
         => (tPc = "ret" /\ tOut = Syn(c))

\* C4 witness: a chain of three renames was followed to its node.
C4_Witness ==
    /\ tPc = "ret" /\ IsPlainName(tIn)
    /\ LET c == Walk(lookup.aliases, tIn.ident, 3) IN
         /\ c # NoName /\ c \notin DOMAIN lookup.aliases
         /\ c \in DOMAIN lookup.items
         /\ tOut = Syn(c)

\* the alias chain from `a` reaches a name that is not renamed
ChainEnds(aliases, a) ==
    \E n \in 0..Cardinality(DOMAIN aliases) :
        Walk(aliases, a, n) \notin DOMAIN aliases \cup {NoName}

\* C5: a name that is not built in resolves to the first name of its alias
\* chain that the node table holds (to itself when it is a node), and the
\* unknown-type panic happens only if no name of the chain is a node
\* (stated for alias chains that end, which leaves alias cycles aside).
C5_StopsAtFirstNode ==
    (tPc # "call" /\ IsPlainName(tIn) /\ ChainEnds(lookup.aliases, tIn.ident))
    => LET c == FirstNode(lookup, tIn.ident, Cardinality(DOMAIN lookup.aliases)) IN
       /\ c # NoName => (tPc = "ret" /\ tOut = Syn(c))
       /\ tOut = Panic("unimplemented") => c = NoName

IsWrapped(ty) ==
    /\ ty.k = "Path" /\ ty.ident \in {"Option", "Box", "Vec"}
    /\ ty.arguments.pa = "Angle" /\ ty.arguments.args # <<>>
    /\ ty.arguments.args[1].g = "Type"

WrapIn(w, e) == [t |-> w, inner |-> e]

\* C10: Option<T>, Box<T> and Vec<T> are introspected to Option(t), Box(t)
\* and Vec(t), t the introspection of the first generic argument T (and to
\* nothing when T's introspection aborts); Option<Box<Expr>> with Expr a
\* node gives Option(Box(Syn("Expr"))).
C10_Wrappers ==
    /\ (tPc # "call" /\ IsWrapped(tIn))
       => LET inner == introspect_type(tIn.arguments.args[1].ty, lookup) IN
          IF Aborts(inner) THEN tPc = "abort" /\ tOut = inner
          ELSE tPc = "ret" /\ tOut = WrapIn(tIn.ident, inner)
    /\ (/\ tPc # "call"
        /\ tIn = PathTy("Option", Angle(<<TyArg(PathTy("Box", Angle(<<TyArg(NameTy("Expr"))>>)))>>))
        /\ "Expr" \in DOMAIN lookup.items
        /\ "Expr" \notin DOMAIN lookup.aliases)
       => (tPc = "ret" /\ tOut = Option(Box(Syn("Expr"))))

\* C10 witness: Option<Box<Expr>> was introspected with Expr a known node.
C10_Witness ==
    /\ tPc = "ret"
    /\ tIn = PathTy("Option", Angle(<<TyArg(PathTy("Box", Angle(<<TyArg(NameTy("Expr"))>>)))>>))
    /\ "Expr" \in DOMAIN lookup.items
    /\ tOut = Option(Box(Syn("Expr")))

IsPunctuated(ty) ==
    /\ ty.k = "Path" /\ ty.ident = "Punctuated"
    /\ ty.arguments.pa = "Angle" /\ Len(ty.arguments.args) = 2
    /\ \A i \in 1..2 : ty.arguments.args[i].g = "Type"

PunctuatedOfExpr ==
    PathTy("Punctuated", Angle(<<TyArg(NameTy("Expr")), TyArg(TokenTy(","))>>))

\* C11: Punctuated<E, S> is introspected to Punctuated{element, separator}
\* with element the introspection of E and separator the token kind that S
\* is introspected to; when S is introspected to anything but a token leaf
\* the call panics and no Type is returned.  Punctuated<Expr, Token![,]>
\* with Expr a node and `,` mapped to Comma gives
\* Punctuated{Syn("Expr"), "Comma"}.
C11_Punctuated ==
    /\ (tPc # "call" /\ IsPunctuated(tIn))
       => LET e == introspect_type(tIn.arguments.args[1].ty, lookup)
              sep == introspect_type(tIn.arguments.args[2].ty, lookup)
          IN /\ (~Aborts(e) /\ sep.t = "Token")
                  => (tPc = "ret" /\ tOut = Punctuated(e, sep.name))
             /\ sep.t # "Token" => (tPc = "abort" /\ Aborts(tOut))
             /\ (~Aborts(e) /\ ~Aborts(sep) /\ sep.t # "Token")
                  => tOut = Panic("punct")
    /\ (/\ tPc # "call" /\ tIn = PunctuatedOfExpr
        /\ "Expr" \in DOMAIN lookup.items /\ "Expr" \notin DOMAIN lookup.aliases
        /\ "," \in DOMAIN lookup.tokens /\ lookup.tokens[","] = "Comma")
       => (tPc = "ret" /\ tOut = Punctuated(Syn("Expr"), "Comma"))

\* C11 witness: Punctuated<Expr, Token![,]> was introspected, Expr a node.
C11_Witness ==
    /\ tPc = "ret" /\ tIn = PunctuatedOfExpr
    /\ tOut = Punctuated(Syn("Expr"), "Comma")

\* C11 witness of the violation: a separator that is a node reference.
C11_SeparatorIsNode ==
    /\ tPc = "abort" /\ IsPunctuated(tIn)
    /\ tIn.arguments.args[2].ty = NameTy("Expr")
    /\ introspect_type(NameTy("Expr"), lookup) = Syn("Expr")
    /\ tOut = Panic("punct")

(***************************************************************************)
(* Properties of parse(): the token table, the declarations, the example.  *)
(***************************************************************************)
Finished == pc \in {"done", "err", "panic", "hang", "overflow"}

\* C6: every entry spelling -> symbol produced by the token-table loader
\* is recovered from the output table as symbol -> spelling, no entry being
\* lost, also when two spellings map to the same symbol.
C6_NoEntryLost ==
    pc = "done"
    => \A sp \in DOMAIN lookup.tokens :
         /\ lookup.tokens[sp] \in DOMAIN result.tokens
         /\ result.tokens[lookup.tokens[sp]] = sp

\* the items of the files of the crate that parse
DeclaredItems ==
    UNION {Range(fs[path].items) : path \in {q \in DOMAIN fs : fs[q].ok}}

\* the item is a declaration recorded under the identifier
Declares(x, ident) ==
    \/ x.it = "Struct" /\ x.ident = ident /\ x.ident \in EXTRA_TYPES
    \/ /\ x.it = "Macro" /\ x.mac \in {"ast_struct", "ast_enum", "ast_enum_of_structs"}
       /\ x.tokens.ok /\ x.tokens.ident = ident
       /\ x.mac = "ast_enum" => ~x.tokens.no_visit

\* the crate holds one declaration of the identifier, as the callers of
\* parse() guarantee
DeclaredOnce(ident) ==
    Cardinality(UNION {{<<path, i>> : i \in {j \in DOMAIN fs[path].items :
                                                Declares(fs[path].items[j], ident)}} :
                       path \in {q \in DOMAIN fs : fs[q].ok}}) <= 1

\* the struct declarations: ast_struct! invocations and plain structs, of
\* identifiers declared once
StructsDeclared ==
    {d \in {[ident |-> m.tokens.ident, fields |-> m.tokens.fields] :
               m \in {x \in DeclaredItems : x.it = "Macro" /\ x.mac = "ast_struct" /\ x.tokens.ok}}
            \cup {[ident |-> m.ident, fields |-> m.fields] :
                    m \in {x \in DeclaredItems : x.it = "Struct" /\ x.ident \in EXTRA_TYPES}} :
        DeclaredOnce(d.ident)}

AllPublic(fields) == \A i \in DOMAIN fields.list : fields.list[i].vis = "pub"

NodesNamed(ident) == {k \in DOMAIN nodes : nodes[k].ident = ident}

\* C7: the Node of a struct declaration (the one declaration of its
\* identifier in the crate) whose fields are all public has
\* shape Struct and one entry per declared field, in declaration order, each
\* field name mapped to the introspected type of the field (no entry for a
\* struct without fields).
C7_StructFields ==
    \A d \in StructsDeclared : \A k \in NodesNamed(d.ident) :
        AllPublic(d.fields)
        => /\ nodes[k].data.dk = "Struct"
           /\ Len(nodes[k].data.fields) = Len(d.fields.list)
           /\ \A i \in DOMAIN d.fields.list :
                nodes[k].data.fields[i] =
                    <<d.fields.list[i].ident, introspect_type(d.fields.list[i].ty, lookup)>>

\* C7 witness: a struct of two public fields of different types has its Node.
C7_Witness ==
    /\ pc = "done"
    /\ \E d \in StructsDeclared : \E k \in NodesNamed(d.ident) :
        /\ AllPublic(d.fields) /\ Len(d.fields.list) = 2
        /\ d.fields.list[1].ty # d.fields.list[2].ty
        /\ Len(nodes[k].data.fields) = 2

\* the ast_enum_of_structs! declarations
EosDeclared ==
    {m.tokens : m \in {x \in DeclaredItems :
                         /\ x.it = "Macro" /\ x.mac = "ast_enum_of_structs" /\ x.tokens.ok
                         /\ DeclaredOnce(x.tokens.ident)}}

\* the tagged enum that lists the variants of an enum of wrapped structs:
\* `Name` for an entry without member, `Name(Path)` for one with a member
TaggedEnumOf(eos) ==
    EnumTokens(eos.attrs, eos.ident, FALSE,
               [i \in DOMAIN eos.entries |->
                  Variant(eos.entries[i].attrs, eos.entries[i].name,
                          IF eos.entries[i].member.some
                          THEN Fields("Unnamed",
                                      <<Field("inherited", "",
                                              [k |-> "Path",
                                               ident |-> eos.entries[i].member.ident,
                                               arguments |-> eos.entries[i].member.arguments])>>)
                          ELSE Fields("Unit", <<>>))])

\* C8: the Node of an enum of wrapped structs (the one declaration of its
\* identifier in the crate) has the variant mapping of the
\* tagged enum that lists the same variants with the same payloads; an entry
\* without member has no payload, an entry `Name(Path)` has one.
C8_EnumForms ==
    \A eos \in EosDeclared : \A k \in NodesNamed(eos.ident) :
        /\ nodes[k].data.dk = "Enum"
        /\ nodes[k].data.variants =
             introspect_enum(ast_enum(TaggedEnumOf(eos)).item.ast.data, lookup).variants
        /\ \A i \in DOMAIN eos.entries :
             ~is_doc_hidden(eos.entries[i].attrs)
             => \E j \in DOMAIN nodes[k].data.variants :
                  /\ nodes[k].data.variants[j][1] = eos.entries[i].name
                  /\ Len(nodes[k].data.variants[j][2]) =
                       IF eos.entries[i].member.some THEN 1 ELSE 0

\* C8 witness: an enum of wrapped structs with a unit entry and a wrapping
\* entry has its Node with both variants.
C8_Witness ==
    /\ pc = "done"
    /\ \E eos \in EosDeclared : \E k \in NodesNamed(eos.ident) :
        /\ Len(eos.entries) = 2
        /\ eos.entries[1].member.some /\ ~eos.entries[2].member.some
        /\ Len(nodes[k].data.variants) = 2

IsIdentExample(sym) ==
    /\ SYN_CRATE_ROOT \in DOMAIN fs
    /\ fs[SYN_CRATE_ROOT] = IdentRoot(sym)

IdentNode(sym) ==
    Node("Ident", {},
         [dk |-> "Struct",
          fields |-> << <<"sym", Ext(sym)>>, <<"span", Ext("Span")>> >>],
         TRUE)

\* C9 (as amended): `pub struct Ident { pub sym: Symbol, pub span: Span }`
\* is recorded as the item Ident, and its introspection aborts on the
\* unknown type Symbol, which is not one of the opaque leaf names; with a
\* field `pub sym: Literal` the run yields the one Node Ident of shape
\* Struct with sym -> Ext("Literal"), span -> Ext("Span"), in that order, an
\* empty feature predicate and exhaustive = true.
C9_IdentExample ==
    /\ (IsIdentExample("Symbol") /\ Finished)
       => /\ pc = "panic" /\ result = Panic("unimplemented")
          /\ DOMAIN lookup.items = {"Ident"}
    /\ (IsIdentExample("Literal") /\ Finished)
       => /\ pc = "done"
          /\ result.types = <<IdentNode("Literal")>>

\* C9 witness: the example with `pub sym: Literal` ran to its Schema.
C9_Witness ==
    /\ IsIdentExample("Literal")
    /\ pc = "done"
    /\ result.types = <<IdentNode("Literal")>>

\* C9 as stated: the example with `pub sym: Symbol` yields the Node Ident
\* with sym -> Ext("Symbol") and span -> Ext("Span").
C9_SymbolIsOpaqueLeaf ==
    (IsIdentExample("Symbol") /\ Finished)
    => /\ pc = "done"
       /\ result.t = "ok"
       /\ result.types = <<IdentNode("Symbol")>>

\* the files the crawl has read
Crawled == {path \in Range(loaded) : path # TOKEN_SRC /\ path \in DOMAIN fs /\ fs[path].ok}

\* the struct declarations of the crawled files with a field that is not public
PrivateStructsCrawled ==
    {d \in StructsDeclared :
        /\ ~AllPublic(d.fields)
        /\ \E path \in Crawled : \E i \in DOMAIN fs[path].items :
             LET x == fs[path].items[i] IN
             \/ x.it = "Macro" /\ x.mac = "ast_struct" /\ x.tokens.ok
                /\ x.tokens.ident = d.ident /\ x.tokens.fields = d.fields
             \/ x.it = "Struct" /\ x.ident = d.ident /\ x.fields = d.fields}

\* C12: a struct declaration (the one declaration of its identifier in the
\* crate) with a field that is not public is recorded,
\* its Node has the opaque Private data without a field mapping, and the
\* introspection of the item never aborts on its fields (its feature
\* predicates merging): not on a field of unknown type and not on a tuple
\* struct.
C12_PrivateStruct ==
    \A d \in PrivateStructsCrawled :
        /\ pc \in {"assemble", "done"} => d.ident \in DOMAIN lookup.items
        /\ \A k \in NodesNamed(d.ident) : nodes[k].data = [dk |-> "Private"]
        /\ (pc \in {"panic", "hang"} /\ d.ident \in DOMAIN lookup.items
            /\ ~IsPanic(introspect_features(lookup.items[d.ident].features)))
           => ItemValues[Len(nodes) + 1] # d.ident
        /\ pc = "done"
           => \E k \in DOMAIN result.types :
                /\ result.types[k].ident = d.ident
                /\ result.types[k].data = [dk |-> "Private"]

\* C12 witness: a tuple struct with a private field of the unknown type
\* Symbol has its Private Node in the Definitions.
C12_Witness ==
    /\ pc = "done"
    /\ \E d \in PrivateStructsCrawled :
        /\ d.fields.fk = "Unnamed"
        /\ d.fields.list[1].ty = NameTy("Symbol")
        /\ \E k \in DOMAIN result.types :
             /\ result.types[k].ident = d.ident
             /\ result.types[k].data = [dk |-> "Private"]

Marked(attrs) == \E j \in DOMAIN attrs : attrs[j] = NonExhaustive

Hidden(attrs) == \E j \in DOMAIN attrs : attrs[j] = DocHidden

\* what an item of a file declares: the name, the attributes written on the
\* declaration and the attribute lists of its variants; nothing for an item
\* that is no recorded declaration
DeclarationsOf(x) ==
    IF x.it = "Struct" /\ x.ident \in EXTRA_TYPES
    THEN {[ident |-> x.ident, attrs |-> x.attrs, variants |-> <<>>]}
    ELSE IF x.it = "Macro" /\ x.mac = "ast_struct" /\ x.tokens.ok
    THEN {[ident |-> x.tokens.ident, attrs |-> x.tokens.attrs, variants |-> <<>>]}
    ELSE IF x.it = "Macro" /\ x.mac = "ast_enum" /\ x.tokens.ok /\ ~x.tokens.no_visit
    THEN {[ident |-> x.tokens.ident, attrs |-> x.tokens.attrs,
           variants |-> [i \in DOMAIN x.tokens.variants |-> x.tokens.variants[i].attrs]]}
    ELSE IF x.it = "Macro" /\ x.mac = "ast_enum_of_structs" /\ x.tokens.ok
    THEN {[ident |-> x.tokens.ident, attrs |-> x.tokens.attrs,
           variants |-> [i \in DOMAIN x.tokens.entries |-> x.tokens.entries[i].attrs]]}
    ELSE {}

\* the declarations of the files the crawl has read
DeclarationsCrawled ==
    UNION {UNION {DeclarationsOf(x) : x \in Range(fs[path].items)} : path \in Crawled}

\* C13: the exhaustive flag of a Node of any shape is false when its
\* declaration is marked #[non_exhaustive] or one of its variants is marked
\* doc(hidden), and true otherwise.
C13_Exhaustive ==
    \A d \in DeclarationsCrawled : \A k \in NodesNamed(d.ident) :
        nodes[k].exhaustive =
            ~(Marked(d.attrs) \/ \E i \in DOMAIN d.variants : Hidden(d.variants[i]))

\* the enums a file item declares, as name and variants; an enum of wrapped
\* structs by the variants it lists
EnumsOf(x) ==
    IF x.it = "Macro" /\ x.mac = "ast_enum" /\ x.tokens.ok /\ ~x.tokens.no_visit
    THEN {[ident |-> x.tokens.ident, variants |-> x.tokens.variants]}
    ELSE IF x.it = "Macro" /\ x.mac = "ast_enum_of_structs" /\ x.tokens.ok
    THEN {[ident |-> x.tokens.ident, variants |-> TaggedEnumOf(x.tokens).variants]}
    ELSE {}

\* the enum declarations of the crawled files, of identifiers declared once
EnumsCrawled ==
    {d \in UNION {UNION {EnumsOf(x) : x \in Range(fs[path].items)} : path \in Crawled} :
        DeclaredOnce(d.ident)}

Visible(variants) == SelectSeq(variants, LAMBDA v : ~Hidden(v.attrs))

PayloadOf(v) == [j \in DOMAIN v.fields.list |-> introspect_type(v.fields.list[j].ty, lookup)]

\* the variant cannot be introspected
VariantAborts(v) ==
    \/ v.fields.fk = "Named"
    \/ \E j \in DOMAIN v.fields.list : Aborts(introspect_type(v.fields.list[j].ty, lookup))

\* C14: the variant mapping of the Node of an enum (the one declaration of
\* its identifier in the crate) holds exactly the variants that
\* are not marked doc(hidden), in declaration order, each with its payload
\* types; a hidden variant is dropped and its payload is never introspected
\* (when the feature predicates of the enum merge, its introspection aborts
\* only on a variant that is kept), and an enum with a hidden variant is not
\* exhaustive.
C14_HiddenVariants ==
    \A d \in EnumsCrawled :
        /\ \A k \in NodesNamed(d.ident) :
             /\ nodes[k].data.dk = "Enum"
             /\ nodes[k].data.variants =
                  [i \in DOMAIN Visible(d.variants) |->
                     <<Visible(d.variants)[i].ident, PayloadOf(Visible(d.variants)[i])>>]
             /\ (\E i \in DOMAIN d.variants : Hidden(d.variants[i].attrs))
                  => ~nodes[k].exhaustive
        /\ (pc \in {"panic", "hang"} /\ d.ident \in DOMAIN lookup.items
            /\ ItemValues[Len(nodes) + 1] = d.ident
            /\ ~IsPanic(introspect_features(lookup.items[d.ident].features)))
           => \E i \in DOMAIN Visible(d.variants) : VariantAborts(Visible(d.variants)[i])

\* C14 witness: an enum of a kept variant and a hidden variant whose payload
\* is the unknown type Symbol has its Node with the kept variant only.
C14_Witness ==
    /\ pc = "done"
    /\ \E d \in EnumsCrawled : \E k \in NodesNamed(d.ident) :
        /\ Len(d.variants) = 2
        /\ ~Hidden(d.variants[1].attrs) /\ Hidden(d.variants[2].attrs)
        /\ d.variants[2].fields.fk = "Unnamed"
        /\ d.variants[2].fields.list[1].ty = NameTy("Symbol")
        /\ Len(nodes[k].data.variants) = 1
        /\ nodes[k].data.variants[1][1] = d.variants[1].ident
        /\ ~nodes[k].exhaustive

\* the files read so far that are no valid syntax
BrokenRead == {path \in Range(loaded) : path \in DOMAIN fs /\ ~fs[path].ok}

\* the error carries the path of the file and the position, both 1-based
\* (the line of a span is 1-based, its column 0-based)
LocatedAt(error, path, pos) ==
    /\ error.t = "err" /\ error.located
    /\ error.path = path
    /\ error.line = pos.line
    /\ error.column = pos.column + 1

\* C15: when a file read during the run (the crate root, a module file at
\* any depth, the token file) is no valid syntax, parse() fails with an
\* error that carries the path of that file, the innermost one, and the
\* 1-based line and column of the syntax error.
C15_SyntaxErrorLocated ==
    \A path \in BrokenRead :
        /\ pc = "err"
        /\ LocatedAt(result, path, fs[path].pos)

\* the part of C15 that holds: the files of the crawl
SyntaxErrorLocatedInCrawl ==
    \A path \in BrokenRead \ {TOKEN_SRC} :
        /\ pc = "err"
        /\ LocatedAt(result, path, fs[path].pos)

Failed == pc \in {"err", "panic", "hang"}

\* the module declarations of the crawled files that name a file
ModulesCrawled ==
    UNION {{[dir |-> path.dir, mod |-> x] :
              x \in {y \in Range(fs[path].items) :
                       y.it = "Mod" /\ ~y.inline /\ y.ident \notin {"fold", "visit", "visit_mut"}}} :
           path \in Crawled}

\* the Definitions describe the whole crate: every file was read and is
\* valid, every module file was read, every declaration has its Node
WholeSchema ==
    /\ pc = "done"
    /\ BrokenRead = {} /\ Range(loaded) \subseteq DOMAIN fs
    /\ \A e \in ModulesCrawled : join(e.dir, mod_filename(e.mod)) \in Range(loaded)
    /\ \A d \in DeclarationsCrawled : d.ident \in DOMAIN lookup.items
    /\ result.types = nodes
    /\ [k \in DOMAIN nodes |-> nodes[k].ident] = ItemValues

\* C16: a failure of the token loader, the crawl or the introspection ends
\* the run at once: after it nothing is loaded, recorded or introspected
\* and no Definitions are returned; Definitions that are returned describe
\* every declaration of every file of the crate.
C16_FirstFailureAborts ==
    /\ [](Failed => result.t \in {"err", "panic", "hang"})
    /\ [](result.t = "ok" => WholeSchema)
    /\ [][~Failed]_vars

\* C16 witness: the introspection failed on the second of two recorded
\* items; the first Node is dropped with the run.
C16_Witness ==
    /\ pc = "panic" /\ result.t = "panic"
    /\ Len(nodes) >= 1
    /\ Len(nodes) < Cardinality(DOMAIN lookup.items)

\* C16 witness: a module file is no valid syntax; the module declared after
\* it is not loaded and the recorded declaration gives no Node.
C16_WitnessCrawl ==
    /\ pc = "err"
    /\ Src("expr.rs") \in BrokenRead
    /\ Src("lit.rs") \in DOMAIN fs /\ Src("lit.rs") \notin Range(loaded)
    /\ "Expr" \in DOMAIN lookup.items /\ nodes = <<>>

\* the place of an identifier in the order of strings
Rank(ident) == CHOOSE i \in DOMAIN IdentOrder : IdentOrder[i] = ident

\* the node list of the three declarations of PermutedRoots
PermutedSchema ==
    <<Node("Expr", {}, [dk |-> "Struct", fields |-> <<>>], TRUE),
      Node("Item", {}, [dk |-> "Struct", fields |-> << <<"expr", Syn("Expr")>> >>], TRUE),
      Node("Lit", {"full"}, [dk |-> "Struct", fields |-> <<>>], TRUE)>>

\* C17: the node list of the Definitions is in strictly ascending order of
\* identifier (no identifier twice), holds the recorded declarations, and is
\* the same list in whichever order the crawl meets the same declarations.
C17_NodeOrder ==
    pc = "done"
    => /\ \A i, j \in DOMAIN result.types :
            i < j => Rank(result.types[i].ident) < Rank(result.types[j].ident)
       /\ {result.types[i].ident : i \in DOMAIN result.types}
            = {d.ident : d \in DeclarationsCrawled}
       /\ (SYN_CRATE_ROOT \in DOMAIN fs /\ fs[SYN_CRATE_ROOT] \in PermutedRoots)
            => result.types = PermutedSchema

\* C17 witness: the declarations Lit, Item, Expr, met in this order, are
\* listed as Expr, Item, Lit.
C17_Witness ==
    /\ pc = "done"
    /\ fs[SYN_CRATE_ROOT] = ParsedFile(<<DeclNamed("Lit"), DeclNamed("Item"), DeclNamed("Expr")>>)
    /\ result.types = PermutedSchema

\* the module declaration the i-th load_file in progress was called for
ModOfFrame(i) == fs[stack[i - 1].path].items[stack[i - 1].idx - 1]

\* the files of the modules named `derive` that the crawl has read
DeriveFiles ==
    {join(e.dir, mod_filename(e.mod)) : e \in {m \in ModulesCrawled : m.mod.ident = "derive"}}
    \cap Crawled

\* the declarations of a file that carry no cfg attribute and no #full
PlainDeclarationsIn(path) ==
    UNION {DeclarationsOf(x) :
             x \in {y \in Range(fs[path].items) :
                      /\ y.it = "Macro"
                      /\ \A j \in DOMAIN y.attrs : ~IsCfg(y.attrs[j])
                      /\ ~(y.mac = "ast_struct" /\ y.tokens.ok /\ y.tokens.full)}}

\* C18: the file of a module named `derive` is crawled with exactly the
\* one predicate {derive}, whatever cfg attributes the module declaration
\* carries and whatever predicate is inherited; a node declared in it
\* without cfg attribute and without #full has the feature predicate
\* {derive}.
C18_DeriveModule ==
    /\ \A i \in 2..Len(stack) :
         ModOfFrame(i).ident = "derive" => PredsOf(stack[i].features) = <<{"derive"}>>
    /\ \A path \in DeriveFiles : \A d \in PlainDeclarationsIn(path) :
         \A k \in NodesNamed(d.ident) : nodes[k].features = {"derive"}

\* C18 witness: a module `derive` declared under cfg(feature = "printing")
\* in a module under cfg(feature = "full") gave a node with {derive}.
C18_Witness ==
    /\ pc = "done"
    /\ fs = SourceTree(DefaultTokenFile,
                       ModTree(<<CfgFeature("full")>>, <<CfgFeature("printing")>>,
                               "derive", <<DeclNamed("Item")>>))
    /\ \E k \in NodesNamed("Item") : nodes[k].features = {"derive"}

CfgsOf(attrs) == SelectSeq(attrs, IsCfg)

\* the module declarations of a file that name a file
ModulesIn(path) ==
    IF path \in DOMAIN fs /\ fs[path].ok
    THEN {x \in Range(fs[path].items) :
            x.it = "Mod" /\ ~x.inline /\ x.ident \notin {"fold", "visit", "visit_mut"}}
    ELSE {}

\* the files of the crate down to n module declarations below the root,
\* each with the cfg attributes inherited on the way: those of the module
\* declarations above it, or the one of `derive`
RECURSIVE FileContexts(_)
FileContexts(n) ==
    IF n = 0 THEN {[path |-> SYN_CRATE_ROOT, features |-> <<>>]}
    ELSE LET above == FileContexts(n - 1) IN
         above \cup
         UNION {{[path |-> join(c.path.dir, mod_filename(x)),
                  features |-> IF x.ident = "derive" THEN <<CfgFeature("derive")>>
                               ELSE c.features \o CfgsOf(x.attrs)] :
                   x \in ModulesIn(c.path)} : c \in above}

\* C19: the cfg predicate of a followed module other than `derive` is
\* merged with the inherited predicate when the module is entered: an
\* incomparable pair aborts the run there, before the file of the module is
\* read and whether or not that file declares a node, and a node declared
\* in the file (without cfg attribute and #full of its own) has the merged
\* predicate.
C19_MergedAtEntry ==
    /\ \A i \in 2..Len(stack) :
         ModOfFrame(i).ident # "derive"
         => ~IsPanic(introspect_features(stack[i - 1].features \o CfgsOf(ModOfFrame(i).attrs)))
    /\ \A c \in FileContexts(MaxStack - 1) :
         c.path \in Crawled
         => /\ ~IsPanic(introspect_features(c.features))
            /\ \A d \in PlainDeclarationsIn(c.path) : \A k \in NodesNamed(d.ident) :
                 nodes[k].features = introspect_features(c.features).any

\* what of C19 the run does: the nodes have the merged predicate, and an
\* incomparable pair aborts the run when a node below it is introspected
MergedAtIntrospection ==
    \A c \in FileContexts(MaxStack - 1) :
        c.path \in Crawled
        => /\ \A d \in PlainDeclarationsIn(c.path) : \A k \in NodesNamed(d.ident) :
                nodes[k].features = introspect_features(c.features).any
           /\ (IsPanic(introspect_features(c.features)) /\ PlainDeclarationsIn(c.path) # {})
                => pc # "done"

\* a run of C19's case: cfg(feature = "printing") mod lit below
\* cfg(feature = "full") mod expr, lit.rs without declaration, ends with
\* Definitions
IncomparableModuleCompletes ==
    /\ pc = "done" /\ result.t = "ok"
    /\ fs = SourceTree(DefaultTokenFile,
                       ModTree(<<CfgFeature("full")>>, <<CfgFeature("printing")>>, "lit", <<>>))
    /\ Src("lit.rs") \in Range(loaded)

\* the file a module declaration of a file in `dir` names
FileOfModule(e) == join(e.dir, mod_filename(e.mod))

\* C20: beside the token file and the crate root, a file is read only for a
\* module declaration without inline body whose name is none of fold, visit
\* and visit_mut, and when the crawl is through every such declaration has
\* had its file read (a malformed path attribute on it is an error of the
\* run); an inline or skipped module causes no read and gives no node,
\* whatever its file holds and whatever cfg or path attributes it carries.
C20_FollowedModules ==
    /\ Len(loaded) >= 1 => loaded[1] = TOKEN_SRC
    /\ Len(loaded) >= 2 => loaded[2] = SYN_CRATE_ROOT
    /\ \A i \in 3..Len(loaded) : \E e \in ModulesCrawled : FileOfModule(e) = loaded[i]
    /\ pc \in {"assemble", "done"}
         => \A e \in ModulesCrawled : FileOfModule(e) \in Range(loaded)
    /\ DOMAIN lookup.items \subseteq {d.ident : d \in DeclarationsCrawled}
    /\ \A k \in DOMAIN nodes : nodes[k].ident \in {d.ident : d \in DeclarationsCrawled}

\* C20 witness: `#[path = "lit.rs"] mod visit_mut;` with lit.rs and
\* visit_mut.rs holding a declaration: no file is read for it, no node.
C20_Witness ==
    /\ pc = "done"
    /\ fs = SourceTree(DefaultTokenFile, SkipTree(<<PathAttr("lit.rs")>>, "visit_mut", FALSE))
    /\ loaded = <<TOKEN_SRC, SYN_CRATE_ROOT>>
    /\ result.types = <<>>

\* C20 witness: an inline `mod expr { .. }` beside expr.rs is not followed.
C20_WitnessInline ==
    /\ pc = "done"
    /\ fs = SourceTree(DefaultTokenFile, SkipTree(<<>>, "expr", TRUE))
    /\ loaded = <<TOKEN_SRC, SYN_CRATE_ROOT>>
    /\ result.types = <<>>

\* C20 witness: the file-backed `mod expr;` is followed and gives its node.
C20_WitnessFollowed ==
    /\ pc = "done"
    /\ fs = SourceTree(DefaultTokenFile, SkipTree(<<>>, "expr", FALSE))
    /\ loaded = <<TOKEN_SRC, SYN_CRATE_ROOT, Src("expr.rs")>>
    /\ Len(result.types) = 1

\* the file name a module declaration stands for: the string of the first
\* `path` attribute, and <ident>.rs when it has none
NamedFile(mod) ==
    LET overrides == SelectSeq(mod.attrs, LAMBDA a : a.path = "path") IN
    IF overrides # <<>> THEN overrides[1].names[1] ELSE rs_file(mod.ident)

\* C21: the file loaded for a followed module declaration of a file F is,
\* in the directory of F, the file named by the module's `path` attribute
\* when it carries one and <module-name>.rs otherwise, also for the module
\* `derive`: every load_file in progress below the root is at that file,
\* the file is the one read, and when the crawl is through every followed
\* module of a crawled file has had that file read.
C21_ModuleFile ==
    /\ \A i \in 2..Len(stack) :
         /\ stack[i].path = PathOf(stack[i - 1].path.dir, NamedFile(ModOfFrame(i)))
         /\ stack[i].idx >= 1 => stack[i].path \in Range(loaded)
    /\ pc \in {"assemble", "done"}
         => \A e \in ModulesCrawled : PathOf(e.dir, NamedFile(e.mod)) \in Range(loaded)
    /\ \A i \in 3..Len(loaded) :
         \E e \in ModulesCrawled : loaded[i] = PathOf(e.dir, NamedFile(e.mod))

\* C21 witness: `#[path = "lit.rs"] mod derive;` beside derive.rs: lit.rs
\* is read, derive.rs is not, and the node of lit.rs results.
C21_Witness ==
    /\ pc = "done"
    /\ \E x \in Range(fs[SYN_CRATE_ROOT].items) :
         x.it = "Mod" /\ x.ident = "derive" /\ x.attrs = <<PathAttr("lit.rs")>>
    /\ Src("derive.rs") \in DOMAIN fs
    /\ loaded = <<TOKEN_SRC, SYN_CRATE_ROOT, Src("lit.rs")>>
    /\ \E k \in NodesNamed("Expr") : nodes[k].features = {"derive"}

\* C21 witness: a module without `path` attribute has <module-name>.rs read.
C21_WitnessDefault ==
    /\ pc = "done"
    /\ fs = SourceTree(DefaultTokenFile, SkipTree(<<>>, "expr", FALSE))
    /\ loaded = <<TOKEN_SRC, SYN_CRATE_ROOT, Src("expr.rs")>>

\* the plain struct declarations of the crawled files
PlainStructsCrawled ==
    UNION {{x \in Range(fs[path].items) : x.it = "Struct"} : path \in Crawled}

\* the identifiers declared through the three macro forms in crawled files
MacroDeclared ==
    UNION {UNION {{d.ident : d \in DeclarationsOf(x)} :
                    x \in {y \in Range(fs[path].items) : y.it = "Macro"}} :
             path \in Crawled}

\* the item a plain struct declaration is recorded as, in a file crawled
\* with the given features
PlainItem(x, features) ==
    [ast |-> [attrs |-> x.attrs, ident |-> x.ident,
              data |-> [dk |-> "Struct", fields |-> x.fields]],
     features |-> features]

\* C22: a plain struct declaration of a crawled file, the root or a module
\* file, is inserted into the node table if and only if its identifier is
\* Lifetime, as the item of its own attributes and fields and the features
\* of its file; every other plain struct leaves the node table unchanged
\* and gives no Node.
C22_PlainStructs ==
    /\ [][AtItem("Struct")
            => IF CurItem.ident = "Lifetime"
               THEN /\ DOMAIN lookup'.items = DOMAIN lookup.items \cup {"Lifetime"}
                    /\ lookup'.items["Lifetime"] = PlainItem(CurItem, Top.features)
                    /\ \A k \in DOMAIN lookup.items \ {"Lifetime"} :
                         lookup'.items[k] = lookup.items[k]
               ELSE lookup' = lookup]_vars
    /\ [](\A x \in PlainStructsCrawled :
            IF x.ident = "Lifetime"
            THEN pc \in {"assemble", "done"} => "Lifetime" \in DOMAIN lookup.items
            ELSE x.ident \in DOMAIN lookup.items \cup {nodes[k].ident : k \in DOMAIN nodes}
                 => x.ident \in MacroDeclared)

\* C22 witness: a module file declares the plain structs Helper and
\* Lifetime; the run is through with a Node Lifetime and no Node Helper.
C22_Witness ==
    /\ pc = "done"
    /\ \E path \in Crawled \ {SYN_CRATE_ROOT} :
         {"Helper", "Lifetime"} \subseteq {x.ident : x \in {y \in Range(fs[path].items) : y.it = "Struct"}}
    /\ NodesNamed("Lifetime") # {}
    /\ NodesNamed("Helper") = {}
    /\ lookup.items["Lifetime"].features = <<DeriveAttr>>

\* the renames `X as Y` of a use tree, as [rename |-> Y, ident |-> X]
RECURSIVE RenamesOf(_)
RenamesOf(tree) ==
    IF tree.u = "Rename" THEN {[rename |-> tree.rename, ident |-> tree.ident]}
    ELSE IF tree.u = "Path" THEN RenamesOf(tree.tree)
    ELSE IF tree.u = "Group" THEN UNION {RenamesOf(tree.items[i]) : i \in DOMAIN tree.items}
    ELSE {}

\* C23: the alias table is modified only by a `use` declaration of the
\* crate root file that is public, and by it only through its renames
\* `X as Y`, each recorded as Y -> X; a `use` of another crawled file, a
\* `use` that is not public, and plain-name and glob imports leave the
\* alias table unchanged, as does every other step of the run.
C23_AliasTable ==
    [][IF AtItem("Use") /\ Top.path = PathOf("src", "lib.rs") /\ CurItem.vis = "pub"
       THEN LET renames == RenamesOf(CurItem.tree) IN
            /\ DOMAIN lookup'.aliases = DOMAIN lookup.aliases \cup {r.rename : r \in renames}
            /\ \A r \in renames :
                 (\A q \in renames : q.rename = r.rename => q = r)
                 => lookup'.aliases[r.rename] = r.ident
            /\ \A k \in DOMAIN lookup.aliases \ {r.rename : r \in renames} :
                 lookup'.aliases[k] = lookup.aliases[k]
       ELSE lookup'.aliases = lookup.aliases]_vars

\* C23 witness: the crate of several modules is through; of the root's
\* `pub use expr::{Expr, ExprLit as PatLit, *}`, the root's private
\* `use Lit as Literal` and `pub use Expr as Item` of expr.rs, only
\* PatLit -> ExprLit is in the alias table.
C23_Witness ==
    /\ pc = "done"
    /\ fs[SYN_CRATE_ROOT] = CrateRoot
    /\ Src("expr.rs") \in Crawled /\ fs[Src("expr.rs")] = CrateExpr
    /\ lookup.aliases = [k \in {"PatLit"} |-> "ExprLit"]

\* the file of a followed module and the files of the modules discovered
\* from it, down to n levels
RECURSIVE SubtreeFiles(_, _)
SubtreeFiles(path, n) ==
    IF n = 0 THEN {path}
    ELSE {path} \cup UNION {SubtreeFiles(PathOf(path.dir, NamedFile(x)), n - 1) :
                              x \in ModulesIn(path)}

\* the identifiers a file declares
DeclaredIn(path) ==
    IF path \in DOMAIN fs /\ fs[path].ok
    THEN UNION {{d.ident : d \in DeclarationsOf(x)} : x \in Range(fs[path].items)}
    ELSE {}

\* the items of the file of the i-th load_file in progress that are done:
\* those before the item the loop is at, which for a load_file that waits
\* for a submodule is the module declaration itself
ItemsDone(i) ==
    1..(IF i = Len(stack) THEN stack[i].idx - 1 ELSE stack[i].idx - 2)

\* C24: the crawl is depth-first in item order: in every load_file in
\* progress, for every followed module declaration before the item the
\* loop is at, the file of the module and the files of all its recursively
\* discovered submodules have been read and every declaration in them is in
\* the node table; a load_file in progress below another is the one of the
\* module declaration the other is at; and so the same holds for every
\* module of a file when its load returns.
C24_DepthFirst ==
    /\ \A i \in DOMAIN stack : \A j \in ItemsDone(i) :
         LET x == fs[stack[i].path].items[j] IN
         (x.it = "Mod" /\ ~x.inline /\ x.ident \notin {"fold", "visit", "visit_mut"})
         => \A p \in SubtreeFiles(PathOf(stack[i].path.dir, NamedFile(x)), MaxStack) :
              /\ p \in Range(loaded)
              /\ DeclaredIn(p) \subseteq DOMAIN lookup.items
    /\ \A i \in 2..Len(stack) :
         /\ stack[i - 1].idx >= 2
         /\ ModOfFrame(i).it = "Mod"
    /\ pc \in {"assemble", "done"}
         => \A p \in SubtreeFiles(SYN_CRATE_ROOT, MaxStack) :
              p \in Range(loaded) /\ DeclaredIn(p) \subseteq DOMAIN lookup.items

\* C24 witness: the root of the crate of several modules is at its second
\* item; expr.rs of the first and lit.rs of its submodule are read and
\* their declarations recorded, the file of the second module is not read.
C24_Witness ==
    /\ pc = "crawl" /\ Len(stack) = 1 /\ Top.idx = 2
    /\ fs[SYN_CRATE_ROOT] = CrateRoot
    /\ loaded = <<TOKEN_SRC, SYN_CRATE_ROOT, Src("expr.rs"), Src("lit.rs")>>
    /\ DOMAIN lookup.items = {"Expr", "ExprLit", "Lit"}

\* C25: in one run every source file is loaded at most once, so every
\* declaration is visited once, and the crawl comes to an end, also when
\* `path` attributes make two module declarations name one file or make a
\* file name itself or a file above it.
C25_LoadedOnce ==
    /\ \A i, j \in DOMAIN loaded : i # j => loaded[i] # loaded[j]
    /\ \A i, j \in DOMAIN stack : i # j => stack[i].path # stack[j].path

\* a run of C25's case: `mod lit; #[path = "lit.rs"] mod expr;` ends with
\* Definitions after lit.rs was read twice
SameFileTwice ==
    /\ pc = "done" /\ result.t = "ok"
    /\ loaded = <<TOKEN_SRC, SYN_CRATE_ROOT, Src("lit.rs"), Src("lit.rs")>>

\* a run of C25's case: a module file that names the crate root is loaded
\* below the crate root, which is loaded again, without end
AncestorAgain ==
    /\ Len(stack) = 3
    /\ stack[1].path = SYN_CRATE_ROOT /\ stack[2].path = Src("expr.rs")
    /\ stack[3].path = SYN_CRATE_ROOT /\ stack[3].idx = 1
    /\ loaded = <<TOKEN_SRC, SYN_CRATE_ROOT, Src("expr.rs"), SYN_CRATE_ROOT>>

\* the ast_enum! declarations marked #no_visit of the crawled files
NoVisitCrawled ==
    UNION {{x \in Range(fs[path].items) :
              x.it = "Macro" /\ x.mac = "ast_enum" /\ x.tokens.no_visit} :
           path \in Crawled}

\* C26: an ast_enum! declaration that carries #no_visit after its
\* identifier produces no Node: the step over it leaves the node table
\* unchanged and goes on with the next item, and no item or Node of its
\* identifier exists unless another declaration of the crawled files
\* supplies one.
C26_NoVisit ==
    /\ [][(AtItem("Macro") /\ CurItem.mac = "ast_enum" /\ CurItem.tokens.no_visit)
            => /\ lookup' = lookup
               /\ pc' = "crawl" /\ result' = result
               /\ stack' = [stack EXCEPT ![Len(stack)].idx = @ + 1]]_vars
    /\ [](\A x \in NoVisitCrawled :
            x.tokens.ident \in DOMAIN lookup.items \cup {nodes[k].ident : k \in DOMAIN nodes}
            => x.tokens.ident \in {d.ident : d \in DeclarationsCrawled})

\* C26 witness: the root declares the struct Expr and an ast_enum! Item
\* #no_visit with a payload of unknown type; the Schema holds Expr alone.
C26_Witness ==
    /\ pc = "done"
    /\ \E x \in NoVisitCrawled :
         x.tokens.ident = "Item" /\ x.tokens.variants # <<>> /\ x.attrs = <<>>
    /\ [k \in DOMAIN result.types |-> result.types[k].ident] = <<"Expr">>

\* C26 witness: the marked enum has the identifier of the struct Expr
\* declared before it; the Node Expr is the one of the struct.
C26_WitnessSupplied ==
    /\ pc = "done"
    /\ \E x \in NoVisitCrawled : x.tokens.ident = "Expr"
    /\ Len(result.types) = 1
    /\ result.types[1].ident = "Expr" /\ result.types[1].data.dk = "Struct"

\* the item a declaration of a file crawled with the given features is
\* recorded as
RecordOf(x, features) ==
    IF x.it = "Struct" THEN PlainItem(x, features)
    ELSE [ast |-> recognize(x).item.ast,
          features |-> recognize(x).item.features \o features \o CfgsOf(x.attrs)]

\* the items the crawl of a file records, in crawl order: the declarations
\* of the file from its i-th item on, those of the file of a followed module
\* standing at the place of the module declaration
RECURSIVE RecordsFrom(_, _, _, _)
RecordsFrom(path, features, i, n) ==
    IF path \notin DOMAIN fs \/ ~fs[path].ok THEN <<>>
    ELSE IF i > Len(fs[path].items) THEN <<>>
    ELSE LET x == fs[path].items[i]
             here ==
                 IF x \in ModulesIn(path)
                 THEN IF n = 0 THEN <<>>
                      ELSE RecordsFrom(PathOf(path.dir, NamedFile(x)),
                                       IF x.ident = "derive" THEN <<CfgFeature("derive")>>
                                       ELSE features \o CfgsOf(x.attrs),
                                       1, n - 1)
                 ELSE IF \E ident \in {"Expr", "Item", "Lit", "Lifetime", "ExprLit",
                                        "GenericParam", "Ident", "Path"} : Declares(x, ident)
                 THEN <<RecordOf(x, features)>>
                 ELSE <<>>
         IN here \o RecordsFrom(path, features, i + 1, n)

RecordsOfCrate == RecordsFrom(SYN_CRATE_ROOT, <<>>, 1, MaxStack)

\* the last item recorded under the identifier
LastRecorded(ident) ==
    LET at == {i \in DOMAIN RecordsOfCrate : RecordsOfCrate[i].ast.ident = ident} IN
    RecordsOfCrate[CHOOSE i \in at : \A j \in at : j <= i]

\* the identifiers recorded more than once
RecordedTwice ==
    {RecordsOfCrate[i].ast.ident : i \in {j \in DOMAIN RecordsOfCrate :
        \E l \in DOMAIN RecordsOfCrate : l # j /\ RecordsOfCrate[l].ast.ident = RecordsOfCrate[j].ast.ident}}

\* the loop is at a declaration that is recorded
Recording ==
    \/ AtItem("Macro") /\ recognize(CurItem).t = "some"
    \/ AtItem("Struct") /\ CurItem.ident = "Lifetime"

\* C27: a declaration recorded under an identifier that is in the node
\* table already replaces the earlier one without an error; after the
\* crawl the node table holds for every identifier the shape and the
\* feature attributes of the last declaration recorded under it in crawl
\* order, and the Node of the Schema is the one of that declaration.
C27_LastDeclaration ==
    /\ [][Recording
           => LET item == RecordOf(CurItem, Top.features) IN
              /\ DOMAIN lookup'.items = DOMAIN lookup.items \cup {item.ast.ident}
              /\ lookup'.items[item.ast.ident] = item
              /\ \A k \in DOMAIN lookup.items \ {item.ast.ident} :
                   lookup'.items[k] = lookup.items[k]
              /\ pc' = "crawl" /\ result' = result]_vars
    /\ [](pc \in {"assemble", "done"}
           => /\ DOMAIN lookup.items = {RecordsOfCrate[i].ast.ident : i \in DOMAIN RecordsOfCrate}
              /\ \A ident \in DOMAIN lookup.items : lookup.items[ident] = LastRecorded(ident))
    /\ [](pc = "done"
           => \A k \in DOMAIN result.types :
                result.types[k] = introspect_item(LastRecorded(result.types[k].ident), lookup))

\* C27 witness: the root declares the enum Item under cfg(full) and then
\* the struct Item; the Schema holds the struct Item without features.
C27_Witness ==
    /\ pc = "done"
    /\ fs[SYN_CRATE_ROOT] = ParsedFile(<<FullEnum("Item"), DeclNamed("Expr"), DeclNamed("Item")>>)
    /\ RecordedTwice = {"Item"}
    /\ \E k \in NodesNamed("Item") :
         /\ result.types[k].data.dk = "Struct"
         /\ result.types[k].features = {}

\* C27 witness: the struct Item of the root is replaced by the enum Item
\* of a module file crawled after it.
C27_WitnessFiles ==
    /\ pc = "done"
    /\ loaded = <<TOKEN_SRC, SYN_CRATE_ROOT, Src("lit.rs")>>
    /\ fs[SYN_CRATE_ROOT].items[Len(fs[SYN_CRATE_ROOT].items)].it = "Mod"
    /\ RecordedTwice = {"Item"}
    /\ \E k \in NodesNamed("Item") :
         /\ result.types[k].data.dk = "Enum"
         /\ result.types[k].features = {"full"}

\* the tables without the name: no node and no alias of it
Forget(lkp, name) ==
    Lookup([k \in DOMAIN lkp.items \ {name} |-> lkp.items[k]], lkp.tokens,
           [k \in DOMAIN lkp.aliases \ {name} |-> lkp.aliases[k]])

\* C28: built-in names take precedence over the node and alias tables: a
\* path type whose last segment is a delimiter-group, opaque-leaf or
\* primitive name is introspected to that built-in Type, and one whose last
\* segment is a wrapper name to that wrapper of its argument (or to nothing
\* when the argument is missing or aborts), also when a node or an alias of
\* the name exists; the outcome is the one without any node or alias of the
\* name.
C28_BuiltinFirst ==
    (tPc # "call" /\ tIn.k = "Path")
    => /\ tIn.ident \in {"Brace", "Bracket", "Paren", "Group"}
            => tPc = "ret" /\ tOut = [t |-> "Group", name |-> tIn.ident]
       /\ tIn.ident \in {"TokenStream", "Literal", "Ident", "Span"}
            => tPc = "ret" /\ tOut = [t |-> "Ext", name |-> tIn.ident]
       /\ tIn.ident \in {"String", "u32", "usize", "bool"}
            => tPc = "ret" /\ tOut = [t |-> "Std", name |-> tIn.ident]
       /\ tIn.ident \in {"Option", "Punctuated", "Vec", "Box"}
            => (tPc = "ret" => tOut.t = tIn.ident)
       /\ tIn.ident \in {"Brace", "Bracket", "Paren", "Group", "TokenStream", "Literal",
                          "Ident", "Span", "String", "u32", "usize", "bool",
                          "Option", "Punctuated", "Vec", "Box"}
            => tOut = introspect_type(tIn, Forget(lookup, tIn.ident))

\* C28 witness: String is a node, Ident an alias of the node Expr; the type
\* String was introspected to the primitive String.
C28_Witness ==
    /\ tPc = "ret" /\ tIn = NameTy("String")
    /\ "String" \in DOMAIN lookup.items
    /\ tOut = Std("String")

\* C28 witness: Ident, an alias of the node Expr, is the opaque leaf Ident.
C28_WitnessAlias ==
    /\ tPc = "ret" /\ tIn = NameTy("Ident")
    /\ "Ident" \in DOMAIN lookup.aliases /\ lookup.aliases["Ident"] \in DOMAIN lookup.items
    /\ tOut = Ext("Ident")

\* C28 witness: Option<Box<Expr>> with Option a node and Box an alias.
C28_WitnessWrapper ==
    /\ tPc = "ret"
    /\ tIn = PathTy("Option", Angle(<<TyArg(PathTy("Box", Angle(<<TyArg(NameTy("Expr"))>>)))>>))
    /\ "Option" \in DOMAIN lookup.items /\ "Box" \in DOMAIN lookup.aliases
    /\ tOut = Option(Box(Syn("Expr")))

\* C29: the alias resolution of introspect_type comes to an end for every
\* alias table the crate root can produce, tables with a cycle included:
\* the run completes or aborts with a panic, and never loops forever.
C29_AliasResolutionEnds ==
    /\ pc # "hang"
    /\ result.t # "hang"

\* a run of C29's case: `pub use expr::Expr as Expr;` in the root, Expr a
\* node; the introspection of the field `expr: Expr` of Item never returns
AliasOfItselfLoops ==
    /\ pc = "hang"
    /\ lookup.aliases = [k \in {"Expr"} |-> "Expr"]
    /\ "Expr" \in DOMAIN lookup.items
    /\ [k \in DOMAIN nodes |-> nodes[k].ident] = <<"Expr">>

====
